---- MODULE Spec2Model ----
(***************************************************************************)
(* Plant monitor: the health evaluator and notification gate of            *)
(* PlantDevice (custom_components/plant/__init__.py) and the interval      *)
(* based watering tracker PlantWateringSensor (sensor.py).                 *)
(*                                                                         *)
(* Time is counted in ticks, Hour ticks to the hour.  A timestamp field is *)
(* a record [k, t]: k = "none" for None, k = "iso" for an ISO-8601 string  *)
(* that datetime.fromisoformat parses back to the time t.  A reading is a  *)
(* record [kind, v]: kind = "none" when the state machine holds no state   *)
(* object for the entity, "unknown"/"unavailable" for those state strings, *)
(* "num" for a numeric state string with value v, "text" for any other     *)
(* string (float() raises ValueError on it).                               *)
(***************************************************************************)
EXTENDS Integers, Sequences, FiniteSets, TLC

VARIABLES
    now,            \* wall clock (datetime.now() / datetime.utcnow()), in ticks
    reading,        \* hass.states: entity -> current state of the meter entities
    last_period,    \* dli.extra_state_attributes["last_period"]
    room,           \* which room sensors are configured (room_*_sensor)
    trigger,        \* _config.options: the per-dimension trigger flags
    thresholds,     \* min_* / max_* threshold entities' states
    status,         \* PlantDevice.<dimension>_status
    state,          \* PlantDevice._attr_state
    last_watered,   \* PlantDevice.last_watered
    snooze_until,   \* PlantDevice.snooze_until
    last_notified,  \* PlantDevice.last_notified
    scheduled,      \* send tasks created by async_create_task, not yet started
    inflight,       \* send tasks suspended in "await async_call"
    lastSend,       \* time of the latest notify service invocation
    snoozedAt,      \* time of the latest snooze call not followed by a watering
    ticks,          \* how many times the clock has advanced
    w_last_watered, \* PlantWateringSensor._last_watered
    w_last_notified,\* PlantWateringSensor._last_notified
    w_next,         \* PlantWateringSensor._attrs["next_watering"]
    w_native,       \* PlantWateringSensor._attr_native_value, in ticks
    outside,        \* plant_info["outside"]
    rain,           \* the weather entity's state contains "rain"
    wFires,         \* how often the watering sensor has issued its notification
    wLastFire,      \* time of the latest of them
    wSnooze,        \* the latest snooze of the watering sensor still in force
    saved,          \* PlantDevice's attributes in the last state written
    w_saved,        \* PlantWateringSensor's attributes in the last state written
    calc,           \* the latest call of watering.next_watering: arguments and results
    dryness_call,   \* the latest call of watering.weather_dryness_from_attrs
    watering_days,  \* PlantDevice.watering_days
    rainy_forecast, \* the weather entity's first two forecast entries hold rain
    next_watering_days, \* PlantDevice.next_watering, the number in "<n> j"
    meter,          \* a PlantCurrentStatus: _external_sensor, _tracker,
                    \* _attr_native_value and its state in the state machine
    source,         \* the states of the entities a meter may follow
    hub,            \* hass: the plants set up in hass.data[DOMAIN], the listeners
                    \* of mobile_app_notification_action, the events fired
    handled,        \* per plant, how often async_watered and async_snooze ran
                    \* on behalf of a service call
    outbox,         \* the notifications handed to a notify service
    notify          \* the notify services registered, the ones whose call
                    \* raises, the preferred one, and where the watering
                    \* sensor's latest notification went

vars == <<now, reading, last_period, room, trigger, thresholds, status, state,
          last_watered, snooze_until, last_notified, scheduled, inflight,
          lastSend, snoozedAt, ticks, w_last_watered, w_last_notified, w_next,
          w_native, outside, rain, wFires, wLastFire, wSnooze, saved,
          w_saved, calc, dryness_call, watering_days, rainy_forecast, next_watering_days,
          meter, source, hub, handled, outbox, notify>>

(* The fields of PlantWateringSensor and what it alone reads. *)
wvars == <<w_last_watered, w_last_notified, w_next, w_native, outside, rain,
           wFires, wLastFire, wSnooze, w_saved>>

(* What the functions of watering.py work on. *)
cvars == <<calc, dryness_call>>

(* What the next-watering estimate of PlantDevice.update reads besides the
   readings: the configured interval and the forecast. *)
svars == <<watering_days, rainy_forecast>>

(* A meter of the plant and the entities it follows. *)
mvars == <<meter, source>>

(* The plants of the installation, the notifications and their actions. *)
hvars == <<hub, handled, outbox, notify>>

(* The fields of PlantDevice and what it alone reads. *)
dvars == <<last_period, room, trigger, status, state, last_watered,
           snooze_until, last_notified, scheduled, inflight, lastSend,
           snoozedAt, saved, next_watering_days>>

----------------------------------------------------------------------------
(* Bounds of the model *)

MaxTicks == 2        \* clock advances in one behaviour
MaxTasks == 2        \* send tasks alive at once
MaxTicksW == 2       \* clock advances in one behaviour of the watering sensor
MaxFires == 3        \* notifications the watering sensor issues in one behaviour
MaxEvents == 2       \* notification-action events fired in one behaviour

(* Units and program constants *)

Hour == 100          \* ticks per hour
CooldownHours == 4   \* timedelta(hours=4) in _check_and_notify
SnoozeHours == 1     \* timedelta(hours=1) in async_snooze
NotifyHoursW == 24   \* timedelta(hours=24) in PlantWateringSensor.async_update

----------------------------------------------------------------------------
(* Values *)

None == [k |-> "none", t |-> 0]
Iso(t) == [k |-> "iso", t |-> t]

(* The attributes of a written state that the entities read back: has is
   FALSE while no state has been written (async_get_last_state() is None). *)
NoSaved == [has |-> FALSE, lw |-> None, su |-> None, ln |-> None]
Attributes(lw, su, ln) == [has |-> TRUE, lw |-> lw, su |-> su, ln |-> ln]
NoSavedW == [has |-> FALSE, lw |-> None]

NoState == [kind |-> "none", v |-> 0]
Unknown == [kind |-> "unknown", v |-> 0]
Unavailable == [kind |-> "unavailable", v |-> 0]
Num(x) == [kind |-> "num", v |-> x]
Text == [kind |-> "text", v |-> 0]

STATE_OK == "ok"
STATE_LOW == "low"
STATE_HIGH == "high"
STATE_PROBLEM == "problem"
STATE_UNKNOWN == "unknown"
NoStatus == "None"

Dims == {"moisture", "conductivity", "temperature", "humidity", "illuminance", "dli"}
Entities == Dims \cup {"room_temperature", "room_humidity"}

Known(r) == r.kind = "num"

(* The state is there and is neither "unknown" nor "unavailable". *)
Present(r) == r.kind = "num" \/ r.kind = "text"

(* One threshold pair per dimension, as the threshold entities report it;
   set is FALSE while add_thresholds has not run (min_* and max_* are None). *)
ThresholdPair(lo, hi) == [min |-> lo, max |-> hi, set |-> TRUE]
PlainThresholds ==
    [d \in Dims |-> IF d = "temperature" THEN ThresholdPair(10, 30)
                    ELSE ThresholdPair(20, 60)]
(* min above max *)
InvertedThresholds ==
    [d \in Dims |-> IF d = "temperature" THEN ThresholdPair(30, 10)
                    ELSE ThresholdPair(60, 20)]
(* a band that leaves the values of PlainThresholds outside *)
NarrowThresholds ==
    [d \in Dims |-> IF d = "temperature" THEN ThresholdPair(15, 25)
                    ELSE ThresholdPair(30, 50)]
NoThresholds == [d \in Dims |-> [min |-> 0, max |-> 0, set |-> FALSE]]
ThresholdChoices == {PlainThresholds}

(* States the meter entities take: PlantCurrentStatus holds a number or its
   default (no value), so a meter never reports a non-numeric string.
   GateReadings are the states the moisture meter takes where the clock
   runs; EvalReadings the states the meters take where it stands still. *)
GateReadings == {Unknown, Unavailable, Num(15), Num(40)}
EvalEntities == {"moisture", "conductivity"}
EvalReadings(e) ==
    IF e = "moisture"
    THEN {Unknown, Unavailable, Num(15), Num(20), Num(60), Num(70)}
    ELSE {Unknown, Num(10), Num(70)}

----------------------------------------------------------------------------
(* PlantDevice.update: the threshold evaluator *)

(* EvalMinMax with <= and >= for < and > *)
EvalMinMax_Inclusive(r, thr, old) ==
    IF ~Present(r) THEN old
    ELSE IF r.v <= thr.min THEN STATE_LOW
    ELSE IF r.v >= thr.max THEN STATE_HIGH
    ELSE STATE_OK

(* moisture and conductivity: lines 997-1037.  Reached only when the reading
   parses and the thresholds are there (see RaisesAt). *)
EvalMinMax(r, thr, old) ==
    IF ~Present(r) THEN old
    ELSE IF r.v < thr.min THEN STATE_LOW
    ELSE IF r.v > thr.max THEN STATE_HIGH
    ELSE STATE_OK

(* temperature and humidity: each comparison is guarded by the threshold
   entity being there ("self.min_temperature and ..."), lines 1058-1077,
   1094-1113 *)
EvalGuarded(r, thr, old) ==
    IF ~Present(r) THEN old
    ELSE IF thr.set /\ r.v < thr.min THEN STATE_LOW
    ELSE IF thr.set /\ r.v > thr.max THEN STATE_HIGH
    ELSE STATE_OK

(* EvalMaxOnly with the min checked as well *)
EvalMaxOnly_WithMin(r, thr, old) ==
    IF ~Present(r) THEN old
    ELSE IF r.v < thr.min THEN STATE_LOW
    ELSE IF r.v > thr.max THEN STATE_HIGH
    ELSE STATE_OK

(* illuminance: only the max is checked, lines 1117-1132 *)
EvalMaxOnly(r, thr, old) ==
    IF ~Present(r) THEN old
    ELSE IF r.v > thr.max THEN STATE_HIGH
    ELSE STATE_OK

(* temperature and humidity read the plant's meter and fall back to the room
   sensor when the meter has no value: lines 1039-1056, 1079-1092 *)
WithRoom(d, rd) ==
    IF ~Present(rd[d]) /\ d \in room THEN rd["room_" \o d] ELSE rd[d]

(* dli is known when the DLI sensor has a state; the value compared is the
   previous period's total: lines 1136-1156 *)
EvalDli(r, lp, thr, old) ==
    IF ~Present(r) THEN old
    ELSE IF lp > 0 /\ lp < thr.min THEN STATE_LOW
    ELSE IF lp > 0 /\ lp > thr.max THEN STATE_HIGH
    ELSE STATE_OK

(* The reading each dimension evaluates in this pass. *)
Seen(d, rd) ==
    IF d \in {"temperature", "humidity"} THEN WithRoom(d, rd) ELSE rd[d]

(* The dimension's block raises: float() of a state that is no number
   (ValueError) or ".state" of a threshold that is None (AttributeError). *)
RaisesAt(d, rd, lp, thr) ==
    LET r == Seen(d, rd) IN
    IF d \in {"temperature", "humidity"}
    THEN Present(r) /\ thr[d].set /\ r.kind = "text"
    ELSE IF d = "dli"
    THEN Present(r) /\ lp > 0 /\ ~thr[d].set
    ELSE Present(r) /\ (r.kind = "text" \/ ~thr[d].set)

(* The order in which update() goes through the dimensions. *)
DimOrder ==
    <<"moisture", "conductivity", "temperature", "humidity", "illuminance", "dli">>

Pos(d) ==
    CASE d = "moisture" -> 1
      [] d = "conductivity" -> 2
      [] d = "temperature" -> 3
      [] d = "humidity" -> 4
      [] d = "illuminance" -> 5
      [] d = "dli" -> 6

(* Position of the first block that raises; Len(DimOrder) + 1 when none
   does. *)
FirstRaise(rd, lp, thr) ==
    IF RaisesAt("moisture", rd, lp, thr) THEN 1
    ELSE IF RaisesAt("conductivity", rd, lp, thr) THEN 2
    ELSE IF RaisesAt("temperature", rd, lp, thr) THEN 3
    ELSE IF RaisesAt("humidity", rd, lp, thr) THEN 4
    ELSE IF RaisesAt("illuminance", rd, lp, thr) THEN 5
    ELSE IF RaisesAt("dli", rd, lp, thr) THEN 6
    ELSE 7

Raises(rd, lp, thr) == FirstRaise(rd, lp, thr) <= 6

(* The statuses as the pass leaves them: the blocks before the first one
   that raises have run, the others have not. *)
NewStatus(first, rd, lp, thr, old) ==
    [d \in Dims |->
        IF Pos(d) >= first THEN old[d]
        ELSE IF d = "illuminance" THEN EvalMaxOnly(rd[d], thr[d], old[d])
        ELSE IF d = "dli" THEN EvalDli(rd[d], lp, thr[d], old[d])
        ELSE IF d \in {"temperature", "humidity"}
             THEN EvalGuarded(Seen(d, rd), thr[d], old[d])
        ELSE EvalMinMax(rd[d], thr[d], old[d])]

(* known_state: some dimension had a known reading in this pass *)
KnownState(rd) == \E d \in Dims : Present(Seen(d, rd))

(* Contributes with the trigger flag left out *)
Contributes_AnyTrigger(d, rd, st) ==
    /\ Present(Seen(d, rd))
    /\ st[d] \in {STATE_LOW, STATE_HIGH}

(* A dimension sets new_state = STATE_PROBLEM when this pass computed low or
   high for it and its trigger is on. *)
Contributes(d, rd, st) ==
    /\ Present(Seen(d, rd))
    /\ st[d] \in {STATE_LOW, STATE_HIGH}
    /\ trigger[d]

(* new_state as assigned to _attr_state: lines 992, 1259-1262 *)
NewState(rd, st) ==
    IF ~KnownState(rd) THEN STATE_UNKNOWN
    ELSE IF \E d \in Dims : Contributes(d, rd, st) THEN STATE_PROBLEM
    ELSE STATE_OK

----------------------------------------------------------------------------
(* __init__.py: the plants of the installation, the services and the listener
   of notification actions; the notifications of both paths *)

(* The plants that may be set up, by entity id.  OwnPlant is the one whose
   PlantDevice and PlantWateringSensor the other variables describe. *)
Plants == {"plant.a", "plant.b"}
OwnPlant == "plant.a"

PLANT_WATERED == "PLANT_WATERED"
PLANT_SNOOZE == "PLANT_SNOOZE"

(* The action identifiers an event may carry *)
ActionIds == {PLANT_WATERED, PLANT_SNOOZE, "plant_snooze", "plant_done"}

(* _async_send_notification: the actions of service_data and the plant they
   name *)
HealthMessage ==
    [path |-> "health", entity_id |-> OwnPlant,
     actions |-> <<PLANT_WATERED, PLANT_SNOOZE>>]

(* PlantWateringSensor.async_update: the actions of service_data and the
   plant it names *)
IntervalMessage ==
    [path |-> "interval", entity_id |-> OwnPlant,
     actions |-> <<"plant_snooze", "plant_done">>]

(* hass after async_setup_entry of OwnPlant: the plant is in hass.data, the
   services are registered, one listener is on the bus.  queue holds the
   listener runs an event has started and that have not run yet, fired counts
   the events by plant and action. *)
NoHub ==
    [plants |-> {OwnPlant}, listeners |-> 1, queue |-> <<>>, events |-> 0,
     fired |-> [p \in Plants |-> [a \in ActionIds |-> 0]]]

NoHandled == [p \in Plants |-> [watered |-> 0, snoozed |-> 0]]

(* the watered service: async_watered on every plant of hass.data whose
   entity id is the one the call names *)
service_watered(hd, plants, entity_id) ==
    [p \in Plants |->
        IF p \in plants /\ p = entity_id
        THEN [hd[p] EXCEPT !.watered = @ + 1] ELSE hd[p]]

(* the snooze service *)
service_snooze(hd, plants, entity_id) ==
    [p \in Plants |->
        IF p \in plants /\ p = entity_id
        THEN [hd[p] EXCEPT !.snoozed = @ + 1] ELSE hd[p]]

(* handle_notification_action, one listener's run *)
handle_notification_action(hd, plants, action, entity_id) ==
    IF action = PLANT_WATERED
    THEN service_watered(hd, plants, entity_id)
    ELSE IF action = PLANT_SNOOZE
    THEN service_snooze(hd, plants, entity_id)
    ELSE hd

(* The notify services: registered in the order async_services() lists them,
   failing the ones whose async_call raises, preferred the configured
   ATTR_NOTIFY_SERVICE ("" when there is none), attempted the services the
   watering sensor's latest notification was handed to, in order. *)
Channels == {"c1", "c2"}
NoNotify ==
    [registered |-> <<>>, failing |-> {}, preferred |-> "", attempted |-> <<>>]

(* the broadcast loop when an exception leaves it *)
RECURSIVE broadcast_Stops(_, _)
broadcast_Stops(services, failing) ==
    IF services = <<>> THEN <<>>
    ELSE IF Head(services) \in failing THEN <<Head(services)>>
    ELSE <<Head(services)>> \o broadcast_Stops(Tail(services), failing)

(* for svc in services: try: async_call(...) except Exception: continue *)
RECURSIVE broadcast(_, _)
broadcast(services, failing) ==
    IF services = <<>> THEN <<>>
    ELSE IF Head(services) \in failing
    THEN <<Head(services)>> \o broadcast(Tail(services), failing)
    ELSE <<Head(services)>> \o broadcast(Tail(services), failing)

(* preferred.split(".", 1): the service name, "" when there is no dot and the
   unpacking raises *)
ServiceOf(preferred) ==
    CASE preferred = "notify.c1" -> "c1"
      [] preferred = "notify.c2" -> "c2"
      [] OTHER -> ""

(* the services async_update calls: the preferred one, and all of them when
   there is none or its call raises *)
deliveries(cfg) ==
    IF cfg.preferred # ""
    THEN IF ServiceOf(cfg.preferred) = ""
         THEN broadcast(cfg.registered, cfg.failing)
         ELSE IF ServiceOf(cfg.preferred) \in cfg.failing
         THEN <<ServiceOf(cfg.preferred)>>
                 \o broadcast(cfg.registered, cfg.failing)
         ELSE <<ServiceOf(cfg.preferred)>>
    ELSE broadcast(cfg.registered, cfg.failing)

----------------------------------------------------------------------------
(* PlantDevice: the notification gate and the watering state *)

(* check_and_notify without the test of the trigger flag *)
check_and_notify_AnyTrigger(ms, su) ==
    /\ ms = STATE_LOW
    /\ ~(su.k = "iso" /\ now < su.t)
    /\ ~(last_notified.k = "iso" /\ now < last_notified.t + CooldownHours * Hour)

(* check_and_notify held back by any stored snooze_until, run out or not *)
check_and_notify_AnySnooze(ms, su) ==
    /\ ms = STATE_LOW
    /\ trigger["moisture"]
    /\ su.k = "none"
    /\ ~(last_notified.k = "iso" /\ now < last_notified.t + CooldownHours * Hour)

(* _check_and_notify: TRUE when the pass creates a send task.  ms is
   moisture_status as this pass left it, su the snooze_until in force. *)
check_and_notify(ms, su) ==
    /\ ms = STATE_LOW
    /\ trigger["moisture"]
    /\ ~(su.k = "iso" /\ now < su.t)
    /\ ~(last_notified.k = "iso" /\ now < last_notified.t + CooldownHours * Hour)

Max(a, b) == IF a >= b THEN a ELSE b
Min(a, b) == IF a <= b THEN a ELSE b
Clamp(lo, x, hi) == Max(lo, Min(hi, x))

(* update(), "Calculate Next Watering": lines 1158-1255.  Days are whole
   numbers; adj is kept as a number of AdjUnit-ths. *)
RecentHours == 12    \* timedelta(hours=12)
NeutralTemp == 22    \* temp != 22
NeutralHum == 50     \* hum != 50
DefaultLoss == 5     \* daily_loss = 5
AdjUnit == 10000

(* base_days = self.watering_days or 7 *)
base_days == IF watering_days = 0 THEN 7 ELSE watering_days

(* float(x) of a local the health check left, the neutral value when it
   raises (None, "unknown", "unavailable", no number) *)
NumOr(r, neutral) == IF r.kind = "num" THEN r.v ELSE neutral

(* int(a / b) for b > 0: towards zero *)
TruncDiv(a, b) == IF a >= 0 THEN a \div b ELSE -((-a) \div b)

(* adj: (1 + (temp - 22) * 0.05) * (1 - (hum - 50) * 0.004), halved when rain
   is forecast, and not below 0.1 *)
adj ==
    Max(AdjUnit \div 10,
        (NumOr(Seen("temperature", reading), NeutralTemp) - 2)
           * (300 - NumOr(Seen("humidity", reading), NeutralHum))
           * (IF rainy_forecast THEN 1 ELSE 2))

(* days of the moisture block: (current - min) / (daily_loss * adj), 0 when
   the block does not run.  The model has base_days > 0. *)
slope_days ==
    LET m == reading["moisture"]
        thr == thresholds["moisture"]
    IN  IF ~Present(m) THEN 0
        ELSE IF thr.max - thr.min > 0
        THEN TruncDiv((m.v - thr.min) * base_days * AdjUnit,
                      (thr.max - thr.min) * adj)
        ELSE TruncDiv((m.v - thr.min) * AdjUnit, DefaultLoss * adj)

(* next_days without the override after a watering *)
next_days_NoOverride(lw) ==
    LET d == IF lw.k # "iso" THEN slope_days
             ELSE IF reading["moisture"] = NoState
             THEN Max(0, base_days - ((now - lw.t) \div (24 * Hour)))
             ELSE slope_days
    IN  Max(0, d)

(* next_days when the override looks back a whole day *)
next_days_Day(lw) ==
    LET d == IF lw.k # "iso" THEN slope_days
             ELSE IF now - lw.t < 24 * Hour
             THEN Max(slope_days, base_days)
             ELSE IF reading["moisture"] = NoState
             THEN Max(0, base_days - ((now - lw.t) \div (24 * Hour)))
             ELSE slope_days
    IN  Max(0, d)

(* The days update() leaves in next_watering: the moisture estimate, raised
   to base_days within 12 hours of last_watered (lw), the timer when there is
   no moisture sensor (sensor_moisture is None: NoState); "0 j" for days <= 0 *)
next_days(lw) ==
    LET d == IF lw.k # "iso" THEN slope_days
             ELSE IF now - lw.t < RecentHours * Hour
             THEN Max(slope_days, base_days)
             ELSE IF reading["moisture"] = NoState
             THEN Max(0, base_days - ((now - lw.t) \div (24 * Hour)))
             ELSE slope_days
    IN  Max(0, d)

(* update(): evaluate every dimension, assign _attr_state, run the gate.
   When a block raises, the exception leaves update(): the statuses set so
   far stay, _attr_state is not assigned, the gate does not run and the
   caller does not get to write the state.  lw and su are last_watered and
   snooze_until as the caller left them. *)
update(lw, su) ==
    LET first == FirstRaise(reading, last_period, thresholds)
        st == NewStatus(first, reading, last_period, thresholds, status)
    IN
    /\ status' = st
    /\ IF first <= 6
       THEN UNCHANGED <<state, scheduled, saved, next_watering_days>>
       ELSE /\ state' = NewState(reading, st)
            /\ saved' = Attributes(lw, su, last_notified)
            /\ next_watering_days' = next_days(lw)
            /\ scheduled' = IF check_and_notify(st["moisture"], su)
                            THEN scheduled + 1 ELSE scheduled
            /\ scheduled' + inflight <= MaxTasks

(* SnoozeTarget with the hour left out *)
SnoozeTarget_Now == Iso(now)

(* async_snooze: the timestamp it stores *)
SnoozeTarget == Iso(now + SnoozeHours * Hour)

(* WateredStamp when the assignment is forgotten *)
WateredStamp_Kept == last_watered

(* async_watered: the timestamp it stores *)
WateredStamp == Iso(now)

(* update() when it also stamps last_watered *)
Update_Stamping ==
    /\ update(Iso(now), snooze_until)
    /\ last_watered' = Iso(now)
    /\ UNCHANGED <<now, reading, last_period, room, trigger, thresholds,
                   snooze_until, last_notified, inflight, lastSend, snoozedAt,
                   ticks>>
    /\ UNCHANGED wvars
    /\ UNCHANGED cvars
    /\ UNCHANGED svars
    /\ UNCHANGED hvars
    /\ UNCHANGED mvars

(* _async_send_notification: what the task stores once the call returned *)
NotifiedStamp == Iso(now)

(* An evaluation pass triggered from outside (entity update). *)
Update ==
    /\ update(last_watered, snooze_until)
    /\ UNCHANGED <<now, reading, last_period, room, trigger, thresholds,
                   last_watered, snooze_until, last_notified, inflight,
                   lastSend, snoozedAt, ticks>>
    /\ UNCHANGED wvars
    /\ UNCHANGED cvars
    /\ UNCHANGED svars
    /\ UNCHANGED hvars
    /\ UNCHANGED mvars

(* async_watered *)
async_watered ==
    /\ last_watered' = WateredStamp
    /\ snooze_until' = None
    /\ update(WateredStamp, None)
    /\ snoozedAt' = None
    /\ UNCHANGED <<now, reading, last_period, room, trigger, thresholds,
                   last_notified, inflight, lastSend, ticks>>
    /\ UNCHANGED wvars
    /\ UNCHANGED cvars
    /\ UNCHANGED svars
    /\ UNCHANGED mvars

(* The watered service called for the plant: async_watered. *)
AsyncWatered ==
    /\ async_watered
    /\ UNCHANGED hvars

(* The snooze service / PLANT_SNOOZE action: async_snooze.  The caller may
   wish for h hours; neither the service nor the method reads such a value. *)
SnoozeRequests == {1, 2}

(* async_snooze *)
async_snooze ==
    /\ snooze_until' = SnoozeTarget
    /\ update(last_watered, SnoozeTarget)
    /\ snoozedAt' = Iso(now)
    /\ UNCHANGED <<now, reading, last_period, room, trigger, thresholds,
                   last_watered, last_notified, inflight, lastSend, ticks>>
    /\ UNCHANGED wvars
    /\ UNCHANGED cvars
    /\ UNCHANGED svars
    /\ UNCHANGED mvars

AsyncSnooze(h) ==
    /\ async_snooze
    /\ UNCHANGED hvars

(* The rest of the installation: async_setup_entry of a further plant puts it
   into hass.data, finds the services registered and adds a listener of
   mobile_app_notification_action. *)
SetupEntry(p) ==
    /\ p \notin hub.plants
    /\ hub' = [hub EXCEPT !.plants = @ \cup {p}, !.listeners = @ + 1]
    /\ UNCHANGED <<handled, outbox, notify>>
    /\ UNCHANGED <<now, reading, thresholds, ticks>>
    /\ UNCHANGED dvars
    /\ UNCHANGED wvars
    /\ UNCHANGED cvars
    /\ UNCHANGED svars
    /\ UNCHANGED mvars

(* The event bus as one listener sees it. *)
Queued(n, job) == [i \in 1..n |-> job]

(* A mobile_app_notification_action event is fired, the user having chosen
   an action of a notification of a plant that is set up: the bus starts
   every listener with it.  For OwnPlant the notification is one of outbox;
   what the other plants hand out is not modelled, their events carry any of
   the identifiers. *)
NotificationAction(action, entity_id) ==
    /\ hub.events < MaxEvents
    /\ entity_id \in hub.plants
    /\ entity_id = OwnPlant =>
          \E msg \in outbox : \E i \in DOMAIN msg.actions :
             msg.actions[i] = action
    /\ hub' = [hub EXCEPT
                  !.events = @ + 1,
                  !.fired[entity_id][action] = @ + 1,
                  !.queue = @ \o Queued(hub.listeners,
                                        [action |-> action,
                                         entity_id |-> entity_id])]
    /\ UNCHANGED <<handled, outbox, notify>>
    /\ UNCHANGED <<now, reading, thresholds, ticks>>
    /\ UNCHANGED dvars
    /\ UNCHANGED wvars
    /\ UNCHANGED cvars
    /\ UNCHANGED svars
    /\ UNCHANGED mvars

(* One listener runs handle_notification_action: the service it calls goes
   through hass.data and runs the mutator of the plant named; for OwnPlant
   that is async_watered or async_snooze of the PlantDevice modelled. *)
HandleNotificationAction ==
    /\ hub.queue # <<>>
    /\ LET job == Head(hub.queue)
           hd == handle_notification_action(handled, hub.plants, job.action,
                                            job.entity_id)
       IN  /\ hub' = [hub EXCEPT !.queue = Tail(@)]
           /\ handled' = hd
           /\ IF hd[OwnPlant].watered > handled[OwnPlant].watered
              THEN async_watered
              ELSE IF hd[OwnPlant].snoozed > handled[OwnPlant].snoozed
              THEN async_snooze
              ELSE /\ UNCHANGED <<now, reading, thresholds, ticks>>
                   /\ UNCHANGED dvars
                   /\ UNCHANGED wvars
                   /\ UNCHANGED cvars
                   /\ UNCHANGED svars
                   /\ UNCHANGED mvars
    /\ UNCHANGED <<outbox, notify>>

(* _async_send_notification starts and has_service("notify", ...) is false:
   the task returns. *)
SendNoService ==
    /\ scheduled > 0
    /\ scheduled' = scheduled - 1
    /\ UNCHANGED <<now, reading, last_period, room, trigger, thresholds,
                   status, state, last_watered, snooze_until, last_notified,
                   inflight, lastSend, snoozedAt, ticks,
                   saved, next_watering_days>>
    /\ UNCHANGED wvars
    /\ UNCHANGED cvars
    /\ UNCHANGED svars
    /\ UNCHANGED hvars
    /\ UNCHANGED mvars

(* _async_send_notification starts, the service is registered: it builds the
   message and calls the notify service; the task is suspended in the await. *)
SendCall ==
    /\ scheduled > 0
    /\ scheduled' = scheduled - 1
    /\ inflight' = inflight + 1
    /\ lastSend' = Iso(now)
    /\ outbox' = outbox \cup {HealthMessage}
    /\ UNCHANGED <<now, reading, last_period, room, trigger, thresholds,
                   status, state, last_watered, snooze_until, last_notified,
                   snoozedAt, ticks,
                   saved, next_watering_days>>
    /\ UNCHANGED wvars
    /\ UNCHANGED cvars
    /\ UNCHANGED svars
    /\ UNCHANGED <<hub, handled, notify>>
    /\ UNCHANGED mvars

(* The awaited service call returns: last_notified is recorded. *)
SendReturn ==
    /\ inflight > 0
    /\ inflight' = inflight - 1
    /\ last_notified' = NotifiedStamp
    /\ saved' = Attributes(last_watered, snooze_until, NotifiedStamp)
    /\ UNCHANGED next_watering_days
    /\ UNCHANGED <<now, reading, last_period, room, trigger, thresholds,
                   status, state, last_watered, snooze_until, scheduled,
                   lastSend, snoozedAt, ticks>>
    /\ UNCHANGED wvars
    /\ UNCHANGED cvars
    /\ UNCHANGED svars
    /\ UNCHANGED hvars
    /\ UNCHANGED mvars

(* The awaited service call raises: the exception leaves the task. *)
SendRaise ==
    /\ inflight > 0
    /\ inflight' = inflight - 1
    /\ UNCHANGED <<now, reading, last_period, room, trigger, thresholds,
                   status, state, last_watered, snooze_until, last_notified,
                   scheduled, lastSend, snoozedAt, ticks,
                   saved, next_watering_days>>
    /\ UNCHANGED wvars
    /\ UNCHANGED cvars
    /\ UNCHANGED svars
    /\ UNCHANGED hvars
    /\ UNCHANGED mvars

(* RestoredNotified when the attribute is not read back *)
RestoredNotified_Lost == None

(* async_added_to_hass: what the fields take from the last state, if any *)
RestoredNotified == IF saved.has THEN saved.ln ELSE None
RestoredWatered == IF saved.has THEN saved.lw ELSE None
RestoredSnooze == IF saved.has THEN saved.su ELSE None

(* The process is started again: __init__ builds a new PlantDevice, the send
   tasks of the old process are gone, the meters start without a value, and
   async_added_to_hass reads the last written state. *)
AddedToHass ==
    /\ last_watered' = RestoredWatered
    /\ snooze_until' = RestoredSnooze
    /\ last_notified' = RestoredNotified
    /\ status' = [d \in Dims |-> NoStatus]
    /\ state' = NoStatus
    /\ scheduled' = 0
    /\ inflight' = 0
    /\ reading' = [e \in Entities |->
                      IF reading[e] = NoState THEN NoState ELSE Unknown]
    /\ next_watering_days' = 0
    /\ UNCHANGED <<now, last_period, room, trigger, thresholds, lastSend,
                   snoozedAt, ticks, saved>>
    /\ UNCHANGED wvars
    /\ UNCHANGED cvars
    /\ UNCHANGED svars
    /\ UNCHANGED hvars
    /\ UNCHANGED mvars

(* A string that datetime.fromisoformat() rejects *)
Garbled == [k |-> "text", t |-> 0]

(* async_added_to_hass of a PlantDevice just built, before its first pass:
   snooze_until and last_notified are taken as they are from the attributes
   of the last state, which is not of this run's writing. *)
StoredStamps == {None, Garbled, Iso(0)}

AddedToHassStored ==
    /\ state = NoStatus
    /\ ~saved.has
    /\ snooze_until = None
    /\ last_notified = None
    /\ \E su \in StoredStamps : \E ln \in StoredStamps :
          /\ <<su, ln>> # <<None, None>>
          /\ snooze_until' = su
          /\ last_notified' = ln
    /\ UNCHANGED <<now, reading, last_period, room, trigger, thresholds,
                   status, state, last_watered, scheduled, inflight, lastSend,
                   snoozedAt, ticks, saved, next_watering_days>>
    /\ UNCHANGED wvars
    /\ UNCHANGED cvars
    /\ UNCHANGED svars
    /\ UNCHANGED hvars
    /\ UNCHANGED mvars

----------------------------------------------------------------------------
(* The environment *)

(* The clock advances by one hour (a snooze runs out) or by four (a cooldown
   runs out). *)
TickHours == {1, 4}

Tick ==
    /\ ticks < MaxTicks
    /\ ticks' = ticks + 1
    /\ \E d \in TickHours : now' = now + d * Hour
    /\ UNCHANGED <<reading, last_period, room, trigger, thresholds, status,
                   state, last_watered, snooze_until, last_notified, scheduled,
                   inflight, lastSend, snoozedAt,
                   saved, next_watering_days>>
    /\ UNCHANGED wvars
    /\ UNCHANGED cvars
    /\ UNCHANGED svars
    /\ UNCHANGED hvars
    /\ UNCHANGED mvars

SetReading(e, r) ==
    /\ reading[e] # r
    /\ reading' = [reading EXCEPT ![e] = r]
    /\ UNCHANGED <<now, last_period, room, trigger, thresholds, status,
                   state, last_watered, snooze_until, last_notified, scheduled,
                   inflight, lastSend, snoozedAt, ticks,
                   saved, next_watering_days>>
    /\ UNCHANGED wvars
    /\ UNCHANGED cvars
    /\ UNCHANGED svars
    /\ UNCHANGED hvars
    /\ UNCHANGED mvars

(* The threshold entities are set to another pair (number entities). *)
AddThresholds(c) ==
    /\ thresholds # c
    /\ thresholds' = c
    /\ UNCHANGED <<now, reading, last_period, room, trigger, status,
                   state, last_watered, snooze_until, last_notified, scheduled,
                   inflight, lastSend, snoozedAt, ticks,
                   saved, next_watering_days>>
    /\ UNCHANGED wvars
    /\ UNCHANGED cvars
    /\ UNCHANGED svars
    /\ UNCHANGED hvars
    /\ UNCHANGED mvars

(* The environment of the four min/max dimensions *)
DimsChecked == {"moisture", "conductivity", "temperature", "humidity"}
DimEntities == DimsChecked \cup {"room_temperature", "room_humidity"}
WiredChoices == {W \in SUBSET DimsChecked : Cardinality(W) = 2}
RoomChoices == {{}, {"temperature"}, {"humidity"}}
DimThresholds == {PlainThresholds, InvertedThresholds, NarrowThresholds}
DimReadings(e) ==
    IF e = "temperature" THEN {Unknown, Num(10), Num(30)}
    ELSE IF e = "room_temperature" THEN {Unknown, Num(31)}
    ELSE IF e = "room_humidity" THEN {Unknown, Num(61)}
    ELSE {Unknown, Num(20), Num(60)}

(* The environment of the aggregate: moisture and the two light dimensions *)
AggDims == {"moisture", "illuminance", "dli"}
AggChoices == {W \in SUBSET AggDims : Cardinality(W) = 2}
AggReadings(e) ==
    IF e = "moisture" THEN {Unknown, Num(15), Num(40)}
    ELSE IF e = "illuminance" THEN {Unknown, Num(10), Num(70)}
    ELSE {Unknown, Num(5)}

(* The DLI sensor closes a period: last_period takes the period's total. *)
LastPeriods == {0, 10, 40, 70}

SetLastPeriod(v) ==
    /\ reading["dli"] # NoState
    /\ last_period # v
    /\ last_period' = v
    /\ UNCHANGED <<now, reading, room, trigger, thresholds, status,
                   state, last_watered, snooze_until, last_notified, scheduled,
                   inflight, lastSend, snoozedAt, ticks,
                   saved, next_watering_days>>
    /\ UNCHANGED wvars
    /\ UNCHANGED cvars
    /\ UNCHANGED svars
    /\ UNCHANGED hvars
    /\ UNCHANGED mvars

(* The environment of a pass on inputs that are not all there *)
RaiseEntities == {"moisture", "humidity", "room_temperature"}
RaiseReadings(e) ==
    IF e = "moisture" THEN {Unknown, Num(15)}
    ELSE IF e = "humidity" THEN {Unknown, Num(70)}
    ELSE {Unknown, Unavailable, Text, Num(31)}

SetTrigger(d) ==
    /\ trigger' = [trigger EXCEPT ![d] = ~@]
    /\ UNCHANGED <<now, reading, last_period, room, thresholds, status,
                   state, last_watered, snooze_until, last_notified, scheduled,
                   inflight, lastSend, snoozedAt, ticks,
                   saved, next_watering_days>>
    /\ UNCHANGED wvars
    /\ UNCHANGED cvars
    /\ UNCHANGED svars
    /\ UNCHANGED hvars
    /\ UNCHANGED mvars

----------------------------------------------------------------------------
(* PlantWateringSensor: the interval based tracker (sensor.py) *)

NoSnooze == [k |-> "none", t |-> 0, h |-> 0]


(* _compute_interval_hours, in ticks.  The factors are kept as fractions:
   ratio = rn / rd, temp_factor = tn / 80, hum_factor = hn / 200,
   weather_multiplier = wn / 2; the product is cut to whole ticks once
   (Hour divides the denominator, so it is divided out of it first). *)
compute_interval_hours ==
    LET m == reading["moisture"]
        tm == thresholds["moisture"]
        t == reading["temperature"]
        tt == thresholds["temperature"]
        hu == reading["humidity"]
        rd == IF tm.max <= tm.min THEN 2 ELSE tm.max - tm.min
        rn == IF tm.max <= tm.min THEN 1 ELSE Clamp(0, m.v - tm.min, rd)
        bn == 24 * rd + rn * (168 - 24)
        tn == IF Known(t) /\ tt.set THEN Clamp(48, 80 - (2 * t.v - tt.min - tt.max), 112)
              ELSE 80
        hn == IF Known(hu) THEN Clamp(140, 200 - (hu.v - 50), 260) ELSE 200
        wn == IF outside /\ rain THEN 3 ELSE 2
        final == (bn * tn * hn * wn) \div ((rd * 80 * 200 * 2) \div Hour)
    IN  IF ~Known(m) \/ ~tm.set THEN 72 * Hour ELSE Max(1 * Hour, final)

(* SnoozeRewind with the 24 hours of the fallback branch as the interval *)
SnoozeRewind_Fallback(h) == Iso(now - (24 * Hour - h))

(* snooze: the _last_watered it stores for a snooze of h ticks *)
SnoozeRewind(h) == Iso(now - (compute_interval_hours - h))

(* NotifyDue with >= for > *)
NotifyDue_AtLeast(hours_until) ==
    /\ hours_until <= 0
    /\ \/ w_last_notified.k = "none"
       \/ now - w_last_notified.t >= NotifyHoursW * Hour

(* async_update: is the notification due and not sent in the last 24 hours *)
NotifyDue(hours_until) ==
    /\ hours_until <= 0
    /\ \/ w_last_notified.k = "none"
       \/ now - w_last_notified.t > NotifyHoursW * Hour

(* async_update *)
UpdateW ==
    LET interval == compute_interval_hours
        next_watering == IF w_last_watered.k = "none" THEN now
                         ELSE w_last_watered.t + interval
        hours_until == Max(0, next_watering - now)
    IN  /\ w_native' = hours_until
        /\ w_next' = Iso(next_watering)
        /\ IF NotifyDue(hours_until)
           THEN /\ w_last_notified' = Iso(now)
                /\ wFires' = wFires + 1
                /\ wLastFire' = Iso(now)
                /\ wFires' <= MaxFires
                /\ notify' = [notify EXCEPT !.attempted = deliveries(notify)]
                /\ outbox' = outbox \cup {IntervalMessage}
           ELSE UNCHANGED <<w_last_notified, wFires, wLastFire, notify,
                            outbox>>
        /\ w_saved' = [has |-> TRUE, lw |-> w_last_watered]
        /\ UNCHANGED <<now, ticks, reading, thresholds, w_last_watered,
                       outside, rain, wSnooze>>
        /\ UNCHANGED dvars
        /\ UNCHANGED cvars
        /\ UNCHANGED svars
        /\ UNCHANGED <<hub, handled>>
        /\ UNCHANGED mvars

(* The notify services of the installation change: services are registered
   or removed, one starts or stops failing, the plant's preferred service is
   configured. *)
NotifyOrders == {<<>>, <<"c1">>, <<"c1", "c2">>, <<"c2", "c1">>}
Preferences == {"", "notify.c1", "nodot"}

SetNotify(registered, failing, preferred) ==
    /\ <<registered, failing, preferred>>
          # <<notify.registered, notify.failing, notify.preferred>>
    /\ notify' = [notify EXCEPT !.registered = registered,
                                !.failing = failing,
                                !.preferred = preferred]
    /\ UNCHANGED <<hub, handled, outbox>>
    /\ UNCHANGED <<now, ticks, reading, thresholds>>
    /\ UNCHANGED wvars
    /\ UNCHANGED dvars
    /\ UNCHANGED cvars
    /\ UNCHANGED svars
    /\ UNCHANGED mvars

(* mark_watered that also forgets the last notification *)
MarkWatered_Forgetting(when) ==
    /\ w_last_watered' = IF when.k = "none" THEN Iso(now) ELSE when
    /\ w_last_notified' = None
    /\ wSnooze' = NoSnooze
    /\ UNCHANGED <<now, ticks, reading, thresholds, w_next,
                   w_native, outside, rain, wFires, wLastFire,
                   w_saved>>
    /\ UNCHANGED dvars
    /\ UNCHANGED cvars
    /\ UNCHANGED svars
    /\ UNCHANGED hvars
    /\ UNCHANGED mvars

(* mark_watered(when): when is None (now) or a time of the caller's. *)
MarkWatered(when) ==
    /\ w_last_watered' = IF when.k = "none" THEN Iso(now) ELSE when
    /\ wSnooze' = NoSnooze
    /\ UNCHANGED <<now, ticks, reading, thresholds, w_last_notified, w_next,
                   w_native, outside, rain, wFires, wLastFire,
                   w_saved>>
    /\ UNCHANGED dvars
    /\ UNCHANGED cvars
    /\ UNCHANGED svars
    /\ UNCHANGED hvars
    /\ UNCHANGED mvars

(* snooze(hours), hours given in ticks *)
SnoozeChoices == {1 * Hour, 30 * Hour}

SnoozeW(h) ==
    /\ w_last_watered' = SnoozeRewind(h)
    /\ wSnooze' = [k |-> "iso", t |-> now, h |-> h]
    /\ UNCHANGED <<now, ticks, reading, thresholds, w_last_notified, w_next,
                   w_native, outside, rain, wFires, wLastFire,
                   w_saved>>
    /\ UNCHANGED dvars
    /\ UNCHANGED cvars
    /\ UNCHANGED svars
    /\ UNCHANGED hvars
    /\ UNCHANGED mvars

(* The process is started again: __init__ builds a new PlantWateringSensor
   and async_added_to_hass reads last_watered from the last written state;
   isoformat() and fromisoformat() give the same time back. *)
AddedToHassW ==
    /\ w_last_watered' = IF w_saved.has /\ w_saved.lw.k = "iso"
                          THEN Iso(w_saved.lw.t) ELSE None
    /\ w_last_notified' = None
    /\ w_native' = 0
    /\ w_next' = None
    /\ wSnooze' = NoSnooze
    /\ UNCHANGED <<now, ticks, reading, thresholds, outside, rain, wFires,
                   wLastFire, w_saved>>
    /\ UNCHANGED dvars
    /\ UNCHANGED cvars
    /\ UNCHANGED svars
    /\ UNCHANGED hvars
    /\ UNCHANGED mvars

(* The environment of the watering sensor *)
TickHoursW == {1, 24}

TickW ==
    /\ ticks < MaxTicksW
    /\ ticks' = ticks + 1
    /\ \E d \in TickHoursW : now' = now + d * Hour
    /\ UNCHANGED <<reading, thresholds>>
    /\ UNCHANGED wvars
    /\ UNCHANGED dvars
    /\ UNCHANGED cvars
    /\ UNCHANGED svars
    /\ UNCHANGED hvars
    /\ UNCHANGED mvars

WReadings == {Unknown, Num(15)}

(* A reading the interval depends on changes: a snooze made before it no
   longer has "unchanged sensor readings". *)
SetReadingW(e, r) ==
    /\ reading[e] # r
    /\ reading' = [reading EXCEPT ![e] = r]
    /\ wSnooze' = NoSnooze
    /\ UNCHANGED <<now, ticks, thresholds, w_last_watered, w_last_notified,
                   w_next, w_native, outside, rain, wFires, wLastFire,
                   w_saved>>
    /\ UNCHANGED dvars
    /\ UNCHANGED cvars
    /\ UNCHANGED svars
    /\ UNCHANGED hvars
    /\ UNCHANGED mvars

(* The weather entity's state changes between rain and no rain. *)
SetWeather ==
    /\ rain' = ~rain
    /\ wSnooze' = NoSnooze
    /\ UNCHANGED <<now, ticks, reading, thresholds, w_last_watered, outside,
                   w_last_notified, w_next, w_native, wFires, wLastFire,
                   w_saved>>
    /\ UNCHANGED dvars
    /\ UNCHANGED cvars
    /\ UNCHANGED svars
    /\ UNCHANGED hvars
    /\ UNCHANGED mvars


----------------------------------------------------------------------------
(* watering.py: the interval model.  A modifier is a whole number of
   thousandths (Mille is 1.0), an interval a whole number of hundredths of a
   day (DayUnits to the day); an optional argument is a record like a
   reading, NoValue for None.  Temperature in degrees C, humidity in per
   cent, dryness in thousandths, DLI in mol. *)

Mille == 1000
DayUnits == 100
MIN_INTERVAL_DAYS == 50       \* 0.5 days
MAX_INTERVAL_DAYS == 36500    \* 365 days
DefaultBaseDays == 7

NoValue == [kind |-> "none", v |-> 0]

(* temp_modifier rising with the temperature *)
temp_modifier_Rising(temp_c) ==
    IF temp_c.kind = "none" THEN Mille
    ELSE Clamp(500, Mille + 20 * (temp_c.v - 20), 2000)

(* _temp_modifier: 1.0 - (temp_c - 20.0) * 0.02, clamped to [0.5, 2.0] *)
temp_modifier(temp_c) ==
    IF temp_c.kind = "none" THEN Mille
    ELSE Clamp(500, Mille - 20 * (temp_c.v - 20), 2000)

(* humidity_modifier falling with the humidity *)
humidity_modifier_Falling(hum_pct) ==
    IF hum_pct.kind = "none" THEN Mille
    ELSE Clamp(500, Mille - 5 * (hum_pct.v - 50), 2000)

(* _humidity_modifier: 1.0 + ((hum_pct - 50.0) / 10.0) * 0.05, clamped to
   [0.5, 2.0] *)
humidity_modifier(hum_pct) ==
    IF hum_pct.kind = "none" THEN Mille
    ELSE Clamp(500, Mille + 5 * (hum_pct.v - 50), 2000)

(* dli_modifier clamped to [0.25, 2.0] *)
dli_modifier_Wide(dli) ==
    IF dli.kind = "none" THEN Mille
    ELSE Clamp(250,
               IF dli.v < 5 THEN Mille + 100 * (5 - dli.v)
               ELSE Mille - 50 * (dli.v - 5),
               2000)

(* _dli_modifier *)
dli_modifier(dli) ==
    IF dli.kind = "none" THEN Mille
    ELSE Clamp(250,
               IF dli.v < 5 THEN Mille + 100 * (5 - dli.v)
               ELSE Mille - 50 * (dli.v - 5),
               1500)

(* _seasonal_modifier: 1.0 + cos(2 pi (day_of_year - 172) / 365.25) * 0.2,
   to the nearest thousandth, on the days of the year the model visits *)
Days == {1, 81, 172, 264, 355}

seasonal_modifier(day_of_year) ==
    CASE day_of_year = 1 -> 804
      [] day_of_year = 81 -> 1001
      [] day_of_year = 172 -> 1200
      [] day_of_year = 264 -> 998
      [] day_of_year = 355 -> 800

(* outdoor_modifier applied to a plant that is not outside as well *)
outdoor_modifier_Always(is_outside, weather_dryness) ==
    IF weather_dryness.kind = "none" THEN 800
    ELSE Clamp(400, 1200 - (weather_dryness.v - 500), 1500)

(* _outdoor_modifier *)
outdoor_modifier(is_outside, weather_dryness) ==
    IF ~is_outside THEN Mille
    ELSE IF weather_dryness.kind = "none" THEN 800
    ELSE Clamp(400, 1200 - (weather_dryness.v - 500), 1500)

(* clamp_interval with the lower bound left out *)
clamp_interval_NoFloor(days) == Min(MAX_INTERVAL_DAYS, days)

(* _clamp_interval *)
clamp_interval(days) == Max(MIN_INTERVAL_DAYS, Min(MAX_INTERVAL_DAYS, days))

(* x times the modifier m *)
Times(x, m) == (x * m) \div Mille

(* One factor's entry in explanation_parts: above when the modifier is over
   hi, below when it is under lo, nothing in between *)
Part(mod, lo, hi, below, above) ==
    IF mod > hi THEN <<above>>
    ELSE IF mod < lo THEN <<below>>
    ELSE <<>>

(* explanation_parts without the entry for the light *)
explanation_parts_NoLight(temp_mod, hum_mod, season_mod, is_outside, out_mod, dli_mod) ==
    Part(temp_mod, 950, 1050, "warm temperature", "cool temperature")
       \o Part(hum_mod, 950, 1050, "dry air", "high humidity")
       \o Part(season_mod, 900, 1100, "summer growth", "winter dormancy")
       \o (IF is_outside
           THEN Part(out_mod, 800, 1200, "dry weather", "wet weather")
           ELSE <<>>)

(* next_watering: explanation_parts, in the order the entries are appended *)
explanation_parts(temp_mod, hum_mod, season_mod, is_outside, out_mod, dli_mod) ==
    Part(temp_mod, 950, 1050, "warm temperature", "cool temperature")
       \o Part(hum_mod, 950, 1050, "dry air", "high humidity")
       \o Part(season_mod, 900, 1100, "summer growth", "winter dormancy")
       \o (IF is_outside
           THEN Part(out_mod, 800, 1200, "dry weather", "wet weather")
           ELSE <<>>)
       \o Part(dli_mod, 900, 1100, "lots of light", "low light")

(* next_watering: the explanation, its text up to the list of the parts *)
explanation(parts) ==
    [text |-> IF parts = <<>> THEN "Ideal conditions" ELSE "Adjusted for",
     parts |-> parts]

(* next_watering: the arguments, the modifiers, the interval and the
   returned time, last_watered and the result in hundredths of a day *)
next_watering(last, base_interval_days, temperature_c, humidity_pct, is_outside, weather_dryness, dli, day_of_year) ==
    LET base == IF base_interval_days.kind = "none" THEN DefaultBaseDays
                ELSE base_interval_days.v
        temp_mod == temp_modifier(temperature_c)
        hum_mod == humidity_modifier(humidity_pct)
        out_mod == outdoor_modifier(is_outside, weather_dryness)
        dli_mod == dli_modifier(dli)
        season_mod == seasonal_modifier(day_of_year)
        interval == clamp_interval(
                       Times(Times(Times(Times(Times(base * DayUnits, temp_mod),
                                                hum_mod), out_mod), dli_mod),
                             season_mod))
    IN  [called |-> TRUE, last |-> last, base |-> base_interval_days,
         temp |-> temperature_c, hum |-> humidity_pct, outside |-> is_outside,
         dry |-> weather_dryness, dli |-> dli, day |-> day_of_year,
         temp_mod |-> temp_mod, hum_mod |-> hum_mod, out_mod |-> out_mod,
         dli_mod |-> dli_mod, season_mod |-> season_mod,
         interval |-> interval, next |-> last + interval,
         explanation |->
            explanation(explanation_parts(temp_mod, hum_mod, season_mod,
                                          is_outside, out_mod, dli_mod))]

NoCall ==
    [called |-> FALSE, last |-> 0, base |-> NoValue, temp |-> NoValue,
     hum |-> NoValue, outside |-> FALSE, dry |-> NoValue, dli |-> NoValue,
     day |-> 1, temp_mod |-> Mille, hum_mod |-> Mille, out_mod |-> Mille,
     dli_mod |-> Mille, season_mod |-> Mille, interval |-> 0, next |-> 0,
     explanation |-> explanation(<<>>)]

(* weather_dryness_from_attrs.  attrs holds what the function reads of the
   dict: forecast (has is FALSE when the key is missing or no list), the
   values under the three probability keys and the two amount keys in the
   order they are tried (NoValue: key missing, Text: no number), and the
   condition ("" when missing or no string).  Probabilities in per cent,
   amounts in whole units, the result in thousandths. *)
NoForecast == [has |-> FALSE, list |-> <<>>]
Forecast(list) == [has |-> TRUE, list |-> list]
Attrs(fc, probs, amounts, cond) ==
    [forecast |-> fc, probs |-> probs, amounts |-> amounts, condition |-> cond]
NoKeys3 == <<NoValue, NoValue, NoValue>>
NoKeys2 == <<NoValue, NoValue>>
EmptyAttrs == Attrs(NoForecast, NoKeys3, NoKeys2, "")

(* The value of the first key whose value float() accepts *)
FirstNum(vals) ==
    IF \E i \in DOMAIN vals : vals[i].kind = "num"
    THEN vals[CHOOSE i \in DOMAIN vals :
                 /\ vals[i].kind = "num"
                 /\ \A j \in DOMAIN vals : vals[j].kind = "num" => i <= j]
    ELSE NoValue

(* max(0.0, min(1.0, 1.0 - prob / 100.0)) with prob clamped to [0, 100] *)
from_probability(prob) == Clamp(0, Mille - 10 * Clamp(0, prob, 100), Mille)

(* max(0.0, min(1.0, 1.0 - min(50.0, amount) / 50.0)) *)
from_amount(amount) == Clamp(0, Mille - 20 * Min(50, amount), Mille)

(* condition.lower() on the words of the model *)
Lower(c) ==
    CASE c = "Rainy" -> "rainy"
      [] c = "SUNNY" -> "sunny"
      [] OTHER -> c

from_condition(condition) ==
    LET cond == Lower(condition) IN
    IF cond \in {"clear", "sunny", "partlycloudy", "mostly_sunny"} THEN Num(900)
    ELSE IF cond \in {"cloudy", "partly_cloudy", "mostly_cloudy"} THEN Num(600)
    ELSE IF cond \in {"rain", "rainy", "snow", "sleet", "thunderstorm"} THEN Num(100)
    ELSE NoValue

(* own_dryness with the amount tried before the probability *)
own_dryness_AmountFirst(attrs) ==
    LET prob == FirstNum(attrs.probs)
        amount == FirstNum(attrs.amounts)
    IN  IF amount.kind = "num" THEN Num(from_amount(amount.v))
        ELSE IF prob.kind = "num" THEN Num(from_probability(prob.v))
        ELSE from_condition(attrs.condition)

(* weather_dryness_from_attrs after the forecast: probability fields, amount
   fields, condition *)
own_dryness(attrs) ==
    LET prob == FirstNum(attrs.probs)
        amount == FirstNum(attrs.amounts)
    IN  IF prob.kind = "num" THEN Num(from_probability(prob.v))
        ELSE IF amount.kind = "num" THEN Num(from_amount(amount.v))
        ELSE from_condition(attrs.condition)

(* forecast[:2] *)
FirstTwo(list) == SubSeq(list, 1, Min(2, Len(list)))

RECURSIVE weather_dryness_from_attrs(_)
weather_dryness_from_attrs(attrs) ==
    IF attrs = EmptyAttrs THEN NoValue
    ELSE LET entries == FirstTwo(attrs.forecast.list)
             vals == [i \in DOMAIN entries |->
                         weather_dryness_from_attrs(entries[i])]
             got == {i \in DOMAIN entries : vals[i].kind = "num"}
             dryness_sum == (IF 1 \in got THEN vals[1].v ELSE 0)
                               + (IF 2 \in got THEN vals[2].v ELSE 0)
         IN  IF attrs.forecast.has /\ got # {}
             THEN Num(dryness_sum \div Cardinality(got))
             ELSE own_dryness(attrs)

NoDrynessCall == [called |-> FALSE, attrs |-> EmptyAttrs, result |-> NoValue]

(* The dicts the model passes: forecast entries without a forecast of their
   own, one entry that has one, and the attributes of the weather entity *)
ProbChoices ==
    {NoKeys3, <<Num(30), NoValue, NoValue>>, <<Text, Num(80), NoValue>>,
     <<NoValue, NoValue, Num(150)>>, <<Num(-20), NoValue, Num(80)>>, <<Text, NoValue, NoValue>>}
AmountChoices ==
    {NoKeys2, <<Num(0), NoValue>>, <<Text, Num(25)>>, <<Num(100), NoValue>>,
     <<NoValue, Num(-10)>>}
ConditionChoices == {"", "sunny", "cloudy", "Rainy", "fog"}
PlainEntries ==
    {EmptyAttrs,
     Attrs(NoForecast, <<Num(30), NoValue, NoValue>>, NoKeys2, "rainy"),
     Attrs(NoForecast, NoKeys3, NoKeys2, "rainy")}
NestedEntry ==
    Attrs(Forecast(<<Attrs(NoForecast, NoKeys3, <<Num(25), NoValue>>, "")>>),
          NoKeys3, NoKeys2, "sunny")
Entries == PlainEntries \cup {NestedEntry}
ForecastChoices ==
    {NoForecast, Forecast(<<>>)}
       \cup {Forecast(<<a>>) : a \in Entries}
       \cup {Forecast(<<a, b>>) : a \in Entries, b \in Entries}
       \cup {Forecast(<<a, b, c>>) : a \in PlainEntries, b \in PlainEntries,
                                     c \in {NestedEntry}}
AttrsChoices ==
    {Attrs(fc, probs, amounts, cond) :
        fc \in ForecastChoices, probs \in ProbChoices,
        amounts \in AmountChoices, cond \in ConditionChoices}

(* The call of weather_dryness_from_attrs with the dict drawn. *)
WeatherDrynessCall ==
    /\ ~dryness_call.called
    /\ dryness_call' =
          [called |-> TRUE, attrs |-> dryness_call.attrs,
           result |-> weather_dryness_from_attrs(dryness_call.attrs)]
    /\ UNCHANGED <<now, reading, thresholds, ticks, calc>>
    /\ UNCHANGED dvars
    /\ UNCHANGED wvars
    /\ UNCHANGED svars
    /\ UNCHANGED hvars
    /\ UNCHANGED mvars

(* The arguments the model calls next_watering with *)
LastValues == {0, 250}
BaseValues == {NoValue, Num(-3), Num(0), Num(1), Num(7), Num(400)}
TempValues == {NoValue, Num(-40), Num(-30), Num(19), Num(20), Num(21), Num(45), Num(60)}
HumidityValues == {NoValue, Num(-60), Num(0), Num(50), Num(100), Num(260)}
DrynessValues == {NoValue, Num(0), Num(500), Num(1000), Num(1500)}
DliValues == {NoValue, Num(-5), Num(0), Num(4), Num(5), Num(40)}

(* The calls of next_watering the model makes, before they are made *)
Calls ==
    {[NoCall EXCEPT !.last = last, !.base = base, !.temp = t, !.hum = h,
                    !.outside = out, !.dry = dry, !.dli = dli, !.day = day] :
        last \in LastValues, base \in BaseValues, t \in TempValues,
        h \in HumidityValues, out \in BOOLEAN, dry \in DrynessValues,
        dli \in DliValues, day \in Days}

(* The call of next_watering with the arguments drawn. *)
NextWateringCall ==
    /\ ~calc.called
    /\ calc' = next_watering(calc.last, calc.base, calc.temp, calc.hum,
                             calc.outside, calc.dry, calc.dli, calc.day)
    /\ UNCHANGED dryness_call
    /\ UNCHANGED <<now, reading, thresholds, ticks>>
    /\ UNCHANGED dvars
    /\ UNCHANGED wvars
    /\ UNCHANGED svars
    /\ UNCHANGED hvars
    /\ UNCHANGED mvars

----------------------------------------------------------------------------
(* sensor.py: PlantCurrentStatus, a meter that follows one source or a list
   of sources.  _external_sensor is the set of the ids (empty: not set); a
   native value is a whole number of MeanUnit-ths; state is the meter's own
   state in the state machine, NoState until the first write. *)

SourceIds == {"a", "b"}
OwnId == "meter"
MeanUnit == 2

(* _default_state = None *)
default_state == NoValue

(* The constructor: the sources of the config entry, nothing tracked, no
   value, no state written *)
NewMeter(sensors) ==
    [external_sensor |-> sensors, tracker |-> {}, native_value |-> default_state,
     state |-> NoState]

(* float(s.state) of a source, in MeanUnit-ths *)
Scaled(r) == IF r.kind = "num" THEN Num(MeanUnit * r.v) ELSE r

(* sum(values) *)
SumOf(ids, src) ==
    (IF "a" \in ids THEN src["a"].v ELSE 0) + (IF "b" \in ids THEN src["b"].v ELSE 0)

(* mean_value with the sum for the mean *)
mean_value_Sum(sensors, src) ==
    LET values == {sid \in sensors : src[sid].kind = "num"} IN
    IF values = {} THEN default_state
    ELSE Num(MeanUnit * SumOf(values, src))

(* The loop over the sensors and the mean, as async_update and
   state_changed have it: a source counts when it has a state that is
   neither unknown nor unavailable and float() accepts it *)
mean_value(sensors, src) ==
    LET values == {sid \in sensors : src[sid].kind = "num"} IN
    IF values = {} THEN default_state
    ELSE Num((MeanUnit * SumOf(values, src)) \div Cardinality(values))

(* async_update *)
async_update(m, src) ==
    IF m.external_sensor = {}
    THEN [m EXCEPT !.native_value = default_state]
    ELSE [m EXCEPT !.native_value = mean_value(m.external_sensor, src)]

(* state_changed(entity_id, new_state); new_state is a state in
   MeanUnit-ths.  The attribute external_sensor of the meter's own state is
   what the meter wrote, so the first branch replaces nothing. *)
state_changed(m, entity_id, new_state, src) ==
    IF m.state = NoState THEN m
    ELSE IF m.external_sensor # {} /\ entity_id \in m.external_sensor
    THEN [m EXCEPT !.native_value = mean_value(m.external_sensor, src)]
    ELSE IF new_state.kind = "num"
    THEN [m EXCEPT !.native_value = new_state]
    ELSE [m EXCEPT !.native_value = default_state]

(* The state the meter writes: "unknown" for a native value of None *)
StateOf(native_value) ==
    IF native_value.kind = "num" THEN native_value ELSE Unknown

(* async_write_ha_state and the state_changed event of the meter's own
   entity, which the meter tracks *)
write_ha_state(m, src) ==
    LET w == [m EXCEPT !.state = StateOf(m.native_value)] IN
    IF OwnId \in w.tracker THEN state_changed(w, OwnId, w.state, src) ELSE w

(* async_added_to_hass, then the first write of the state.  What is restored
   is the external_sensor attribute of the last state, if there is one. *)
MeterAdded ==
    /\ meter.state = NoState
    /\ \E restored \in {FALSE, TRUE} : \E sensors \in SUBSET SourceIds :
          LET ext == IF restored THEN sensors ELSE meter.external_sensor
              m == [meter EXCEPT !.native_value = default_state,
                                 !.external_sensor = ext,
                                 !.tracker = {OwnId} \cup ext]
          IN  meter' = write_ha_state(m, source)
    /\ UNCHANGED <<now, reading, thresholds, ticks, source>>
    /\ UNCHANGED dvars
    /\ UNCHANGED wvars
    /\ UNCHANGED cvars
    /\ UNCHANGED svars
    /\ UNCHANGED hvars

(* The entity is polled: async_update, then the state is written. *)
MeterPoll ==
    /\ meter.state # NoState
    /\ meter' = write_ha_state(async_update(meter, source), source)
    /\ UNCHANGED <<now, reading, thresholds, ticks, source>>
    /\ UNCHANGED dvars
    /\ UNCHANGED wvars
    /\ UNCHANGED cvars
    /\ UNCHANGED svars
    /\ UNCHANGED hvars

(* The replace_sensor service: replace_external_sensor with one id or None. *)
ReplaceExternalSensor(new_sensor) ==
    /\ meter.state # NoState
    /\ meter.external_sensor # new_sensor
    /\ meter' = write_ha_state(
                    [meter EXCEPT !.external_sensor = new_sensor,
                                  !.tracker = @ \cup {OwnId} \cup new_sensor],
                    source)
    /\ UNCHANGED <<now, reading, thresholds, ticks, source>>
    /\ UNCHANGED dvars
    /\ UNCHANGED wvars
    /\ UNCHANGED cvars
    /\ UNCHANGED svars
    /\ UNCHANGED hvars

(* The state of an entity changes; a meter that tracks it handles the event. *)
SourceStates == {NoState, Unknown, Unavailable, Text, Num(10), Num(40)}

SetSource(e, r) ==
    /\ source[e] # r
    /\ source' = [source EXCEPT ![e] = r]
    /\ meter' = IF e \in meter.tracker
                THEN state_changed(meter, e, Scaled(r), source')
                ELSE meter
    /\ UNCHANGED <<now, reading, thresholds, ticks>>
    /\ UNCHANGED dvars
    /\ UNCHANGED wvars
    /\ UNCHANGED cvars
    /\ UNCHANGED svars
    /\ UNCHANGED hvars

----------------------------------------------------------------------------
(* What every specification starts from, the meters, the room sensors and
   the thresholds apart. *)
InitRest ==
    /\ now = 0
    /\ last_period = 0
    /\ trigger = [d \in Dims |-> TRUE]
    /\ status = [d \in Dims |-> NoStatus]
    /\ state = NoStatus
    /\ last_watered = None
    /\ snooze_until = None
    /\ last_notified = None
    /\ scheduled = 0
    /\ inflight = 0
    /\ lastSend = None
    /\ snoozedAt = None
    /\ ticks = 0
    /\ w_last_watered = None
    /\ w_last_notified = None
    /\ w_next = None
    /\ w_native = 0
    /\ outside = TRUE
    /\ rain = FALSE
    /\ wFires = 0
    /\ wLastFire = None
    /\ wSnooze = NoSnooze
    /\ saved = NoSaved
    /\ w_saved = NoSavedW
    /\ rainy_forecast = FALSE
    /\ next_watering_days = 0
    /\ source = [e \in SourceIds |-> NoState]
    /\ hub = NoHub
    /\ handled = NoHandled
    /\ outbox = {}
    /\ notify = NoNotify

Init ==
    /\ reading = [e \in Entities |-> Unknown]
    /\ room = {}
    /\ thresholds \in ThresholdChoices
    /\ InitRest
    /\ calc = NoCall
    /\ dryness_call = NoDrynessCall
    /\ watering_days = 7
    /\ meter = NewMeter({})

Next ==
    \/ Update
    \/ AsyncWatered
    \/ \E h \in SnoozeRequests : AsyncSnooze(h)
    \/ SendNoService
    \/ SendCall
    \/ SendReturn
    \/ SendRaise
    \/ Tick
    \/ \E r \in GateReadings : SetReading("moisture", r)
    \/ SetTrigger("moisture")

Spec == Init /\ [][Next]_vars

(* The evaluator with the clock standing still and more readings. *)
NextEval ==
    \/ Update
    \/ AsyncWatered
    \/ \E h \in SnoozeRequests : AsyncSnooze(h)
    \/ SendNoService
    \/ SendCall
    \/ SendReturn
    \/ SendRaise
    \/ \E e \in EvalEntities : \E r \in EvalReadings(e) : SetReading(e, r)
    \/ \E d \in EvalEntities : SetTrigger(d)

SpecEval == Init /\ [][NextEval]_vars


(* The four min/max dimensions: two of the meters are enabled, at most one
   room sensor is configured; the entities left out have no state object.
   The notify service is not registered. *)
InitDims ==
    /\ \E W \in WiredChoices : \E rm \in RoomChoices :
          /\ room = rm
          /\ reading = [e \in Entities |->
                           IF e \in W \cup {"room_" \o d : d \in rm}
                           THEN Unknown ELSE NoState]
    /\ thresholds \in ThresholdChoices
    /\ InitRest
    /\ calc = NoCall
    /\ dryness_call = NoDrynessCall
    /\ watering_days = 7
    /\ meter = NewMeter({})

NextDims ==
    \/ Update
    \/ SendNoService
    \/ \E c \in DimThresholds : AddThresholds(c)
    \/ \E e \in DimEntities : \E r \in DimReadings(e) :
          reading[e] # NoState /\ SetReading(e, r)

SpecDims == InitDims /\ [][NextDims]_vars

(* The aggregate: two of moisture, illuminance and dli are enabled, their
   triggers are switched on and off.  The notify service is not registered. *)
InitAgg ==
    /\ room = {}
    /\ \E W \in AggChoices :
          reading = [e \in Entities |-> IF e \in W THEN Unknown ELSE NoState]
    /\ thresholds \in ThresholdChoices
    /\ InitRest
    /\ calc = NoCall
    /\ dryness_call = NoDrynessCall
    /\ watering_days = 7
    /\ meter = NewMeter({})

NextAgg ==
    \/ Update
    \/ SendNoService
    \/ \E e \in AggDims : \E r \in AggReadings(e) :
          reading[e] # NoState /\ SetReading(e, r)
    \/ \E v \in LastPeriods : SetLastPeriod(v)
    \/ \E d \in AggDims : reading[d] # NoState /\ SetTrigger(d)

SpecAgg == InitAgg /\ [][NextAgg]_vars

(* A pass on inputs that are not all there: the plant is set up with its
   moisture and humidity meters and a room temperature sensor, add_thresholds
   has not run yet, and the room sensor may report a state that is no
   number.  The notify service is not registered. *)
InitRaise ==
    /\ room = {"temperature"}
    /\ reading = [e \in Entities |->
                     IF e \in RaiseEntities THEN Unknown ELSE NoState]
    /\ thresholds = NoThresholds
    /\ InitRest
    /\ calc = NoCall
    /\ dryness_call = NoDrynessCall
    /\ watering_days = 7
    /\ meter = NewMeter({})

NextRaise ==
    \/ Update
    \/ AsyncWatered
    \/ SendNoService
    \/ AddThresholds(PlainThresholds)
    \/ \E e \in RaiseEntities : \E r \in RaiseReadings(e) : SetReading(e, r)

SpecRaise == InitRaise /\ [][NextRaise]_vars

(* The gate across restarts of the process. *)
RestartReadings == {Unknown, Num(15)}

NextRestart ==
    \/ Update
    \/ AsyncWatered
    \/ \E h \in SnoozeRequests : AsyncSnooze(h)
    \/ SendCall
    \/ SendReturn
    \/ Tick
    \/ \E r \in RestartReadings : SetReading("moisture", r)
    \/ AddedToHass

SpecRestart == Init /\ [][NextRestart]_vars

(* The health path with a notify service that is registered and returns, a
   moisture reading that is low once it is there, and the trigger left on.
   Passes keep occurring and the event loop runs the tasks it holds. *)
LiveReadings == {Num(15)}

NextLive ==
    \/ Update
    \/ AsyncWatered
    \/ \E h \in SnoozeRequests : AsyncSnooze(h)
    \/ SendCall
    \/ SendReturn
    \/ Tick
    \/ \E r \in LiveReadings : SetReading("moisture", r)
    \/ AddedToHassStored

SpecLive ==
    /\ Init
    /\ [][NextLive]_vars
    /\ WF_vars(Update)
    /\ WF_vars(SendCall)
    /\ WF_vars(SendReturn)

(* The next-watering estimate of PlantDevice.update: hours and days pass,
   the readings, the forecast and the configured interval vary. *)
SlopeEntities == {"moisture", "temperature", "humidity"}
SlopeReadings(e) ==
    IF e = "moisture" THEN {Unknown, Num(15), Num(40), Num(80)}
    ELSE IF e = "temperature" THEN {Unknown, Num(32)}
    ELSE {Unknown, Num(75)}
WateringDays == {0, 3}
SlopeHours == {6, 24}

TickSlope ==
    /\ ticks < MaxTicks
    /\ ticks' = ticks + 1
    /\ \E d \in SlopeHours : now' = now + d * Hour
    /\ UNCHANGED <<reading, last_period, room, trigger, thresholds, status,
                   state, last_watered, snooze_until, last_notified, scheduled,
                   inflight, lastSend, snoozedAt,
                   saved, next_watering_days>>
    /\ UNCHANGED wvars
    /\ UNCHANGED cvars
    /\ UNCHANGED svars
    /\ UNCHANGED hvars
    /\ UNCHANGED mvars

(* The forecast of the weather entity changes. *)
SetForecast ==
    /\ rainy_forecast' = ~rainy_forecast
    /\ UNCHANGED <<now, reading, thresholds, ticks, watering_days>>
    /\ UNCHANGED dvars
    /\ UNCHANGED wvars
    /\ UNCHANGED cvars
    /\ UNCHANGED mvars
    /\ UNCHANGED hvars

InitSlope ==
    /\ room = {}
    /\ \E m \in {NoState, Unknown} :
          reading = [e \in Entities |->
                        IF e = "moisture" THEN m
                        ELSE IF e \in SlopeEntities THEN Unknown ELSE NoState]
    /\ thresholds \in ThresholdChoices
    /\ InitRest
    /\ calc = NoCall
    /\ dryness_call = NoDrynessCall
    /\ watering_days \in WateringDays
    /\ meter = NewMeter({})

NextSlope ==
    \/ Update
    \/ AsyncWatered
    \/ SendNoService
    \/ TickSlope
    \/ SetForecast
    \/ \E e \in SlopeEntities : \E r \in SlopeReadings(e) :
          reading[e] # NoState /\ SetReading(e, r)

SpecSlope == InitSlope /\ [][NextSlope]_vars

(* A meter, the entities it follows, and the service that replaces them. *)
InitMeter ==
    /\ reading = [e \in Entities |-> Unknown]
    /\ room = {}
    /\ thresholds \in ThresholdChoices
    /\ InitRest
    /\ calc = NoCall
    /\ dryness_call = NoDrynessCall
    /\ watering_days = 7
    /\ meter \in {NewMeter(sensors) : sensors \in SUBSET SourceIds}

NextMeter ==
    \/ MeterAdded
    \/ MeterPoll
    \/ \E new_sensor \in {{}, {"a"}, {"b"}} : ReplaceExternalSensor(new_sensor)
    \/ \E e \in SourceIds : \E r \in SourceStates : SetSource(e, r)

SpecMeter == InitMeter /\ [][NextMeter]_vars

(* The interval model of watering.py: one call, its arguments drawn at the
   start. *)
InitCalc ==
    /\ reading = [e \in Entities |-> Unknown]
    /\ room = {}
    /\ thresholds \in ThresholdChoices
    /\ InitRest
    /\ calc \in Calls
    /\ dryness_call = NoDrynessCall
    /\ watering_days = 7
    /\ meter = NewMeter({})

NextCalc == NextWateringCall

(* The dryness index of watering.py: one call, its dict drawn at the start. *)
InitDryness ==
    /\ reading = [e \in Entities |-> Unknown]
    /\ room = {}
    /\ thresholds \in ThresholdChoices
    /\ InitRest
    /\ calc = NoCall
    /\ dryness_call \in
          {[NoDrynessCall EXCEPT !.attrs = a] : a \in AttrsChoices}
    /\ watering_days = 7
    /\ meter = NewMeter({})

NextDryness == WeatherDrynessCall

SpecDryness == InitDryness /\ [][NextDryness]_vars

SpecCalc == InitCalc /\ [][NextCalc]_vars

(* The watering sensor's notification and the notify services. *)
NextNotify ==
    \/ UpdateW
    \/ TickW
    \/ \E registered \in NotifyOrders : \E failing \in SUBSET Channels :
          \E preferred \in Preferences :
             SetNotify(registered, failing, preferred)

SpecNotify == Init /\ [][NextNotify]_vars

(* The installation: further plants are set up, both paths notify, and
   notification-action events are fired and handled. *)
HubReadings == {Num(15)}

NextHub ==
    \/ \E p \in Plants : SetupEntry(p)
    \/ \E action \in ActionIds : \E entity_id \in Plants :
          NotificationAction(action, entity_id)
    \/ HandleNotificationAction
    \/ Update
    \/ \E r \in HubReadings : SetReading("moisture", r)
    \/ SendCall
    \/ SendReturn
    \/ UpdateW

SpecHub == Init /\ [][NextHub]_vars

(* The interval based tracker and its environment. *)
NextW ==
    \/ UpdateW
    \/ \E when \in {None, Iso(0)} : MarkWatered(when)
    \/ \E h \in SnoozeChoices : SnoozeW(h)
    \/ TickW
    \/ \E r \in WReadings : SetReadingW("moisture", r)
    \/ SetWeather

SpecW == Init /\ [][NextW]_vars

(* The interval based tracker across restarts of the process. *)
NextRestartW ==
    \/ UpdateW
    \/ \E when \in {None, Iso(0)} : MarkWatered(when)
    \/ TickW
    \/ \E r \in WReadings : SetReadingW("moisture", r)
    \/ AddedToHassW

SpecRestartW == Init /\ [][NextRestartW]_vars

----------------------------------------------------------------------------
(* The claims *)

(* An evaluation pass ran in this step. *)
Pass == Update \/ AsyncWatered \/ \E h \in SnoozeRequests : AsyncSnooze(h)

(* What the thresholds say of a numeric value. *)
Classify(v, thr) ==
    IF v < thr.min THEN STATE_LOW ELSE IF v > thr.max THEN STATE_HIGH ELSE STATE_OK

(* C1: the notify service is invoked at most once in any 4-hour window:
   every invocation comes at least 4 hours after the one before it. *)
C1_OncePerCooldown ==
    [][SendCall =>
         (lastSend.k = "none" \/ now >= lastSend.t + CooldownHours * Hour)]_vars

(* C2: after a snooze at time t no notification reaches the notify service
   during [t, t + 1 hour). *)
C2_NoSendWhileSnoozed ==
    [][SendCall =>
         ~(snoozedAt.k = "iso" /\ snoozedAt.t <= now /\ now < snoozedAt.t + 1 * Hour)]_vars

(* C3: the watering sensor issues its notification only when none was issued
   in the 24 hours before, and each time records the time in _last_notified. *)
C3_OncePerDay ==
    [][wFires' > wFires =>
         /\ (wLastFire.k = "none" \/ now - wLastFire.t > 24 * Hour)
         /\ w_last_notified' = Iso(now)]_vars

C3_Witness ==
    /\ wFires >= 2
    /\ w_last_notified = Iso(now)
    /\ now > 24 * Hour

(* C4: a pass creates a send task only when moisture_status is low and the
   moisture trigger is on; any other pass creates none, sends nothing and
   leaves last_watered, snooze_until and last_notified as the handler set
   them. *)
C4_GateOnlyLowEnabled ==
    [][/\ scheduled' > scheduled =>
             status'["moisture"] = STATE_LOW /\ trigger["moisture"]
       /\ (Update /\ ~(status'["moisture"] = STATE_LOW /\ trigger["moisture"])) =>
             UNCHANGED <<scheduled, inflight, lastSend, last_watered,
                         snooze_until, last_notified>>]_vars

C4_Witness ==
    /\ status["conductivity"] = STATE_HIGH
    /\ state = STATE_PROBLEM
    /\ status["moisture"] \in {STATE_OK, STATE_HIGH}
    /\ scheduled = 0 /\ inflight = 0 /\ lastSend = None
    /\ last_notified = None

(* C5: when the delivery fails (no notify service, or the call raises),
   last_notified is recorded all the same, so the cooldown is running. *)
C5_FailureKeepsDecision ==
    [][(SendNoService \/ SendRaise) =>
         /\ last_notified'.k = "iso"
         /\ now < last_notified'.t + CooldownHours * Hour]_vars

(* C6: async_watered sets last_watered to now, clears snooze_until and runs
   one evaluation pass: _attr_state is assigned and a known moisture reading
   is classified afresh. *)
C6_MarkWatered ==
    [][AsyncWatered =>
         /\ last_watered' = Iso(now)
         /\ snooze_until' = None
         /\ state' \in {STATE_OK, STATE_PROBLEM, STATE_UNKNOWN}
         /\ Known(reading["moisture"]) =>
               status'["moisture"] =
                   Classify(reading["moisture"].v, thresholds["moisture"])]_vars

C6_Witness ==
    /\ last_watered = Iso(now)
    /\ now > 0
    /\ snooze_until = None
    /\ status["moisture"] = STATE_LOW
    /\ state = STATE_PROBLEM
    /\ last_notified.k = "iso"

(* C7 as stated: snooze sets snooze_until to now plus the hours asked for
   and leaves last_watered alone. *)
C7_SnoozeRequested ==
    [][\A h \in SnoozeRequests :
          AsyncSnooze(h) =>
             /\ snooze_until' = Iso(now + h * Hour)
             /\ last_watered' = last_watered]_vars

(* C7 amended: snooze sets snooze_until to now plus one hour, whatever was
   asked for and whatever snooze was in force, and leaves last_watered
   alone. *)
C7_SnoozeOneHour ==
    [][\A h \in SnoozeRequests :
          AsyncSnooze(h) =>
             /\ snooze_until' = Iso(now + 1 * Hour)
             /\ last_watered' = last_watered]_vars

C7_Witness ==
    /\ snooze_until = Iso(now + 1 * Hour)
    /\ snoozedAt = Iso(now)
    /\ now > 1 * Hour
    /\ last_watered.k = "iso"
    /\ last_watered.t < now

(* C8: after snooze(hours) of the watering sensor, an update with the same
   readings reports next_watering = time of the snooze + hours. *)
C8_SnoozeNextWatering ==
    [][(UpdateW /\ wSnooze.k = "iso") =>
         w_next' = Iso(wSnooze.t + wSnooze.h)]_vars

C8_Witness ==
    /\ wSnooze.k = "iso"
    /\ w_next = Iso(wSnooze.t + wSnooze.h)
    /\ ~Known(reading["moisture"])
    /\ now > wSnooze.t
    /\ w_native > 0

(* C9: in a pass where a dimension's reading is unknown or unavailable, the
   dimension's status is not the low, high or ok of an earlier pass. *)
C9_UnknownReadingNoStatus ==
    [][Pass =>
         \A d \in EvalEntities :
            ~Known(reading[d]) =>
               status'[d] \notin {STATE_LOW, STATE_HIGH, STATE_OK}]_vars

(* C10: a pass in which the moisture reading is unknown or unavailable
   creates no send task, and when no dimension has a known reading the
   aggregate is unknown. *)
C10_UnknownMoistureNoNotify ==
    [][Pass =>
         /\ ~Known(reading["moisture"]) => scheduled' = scheduled
         /\ (\A d \in Dims : ~Known(reading[d])) => state' = STATE_UNKNOWN]_vars

(* C11: after a pass, each of moisture, conductivity, temperature and
   humidity whose reading is a number has the status low when the value is
   below min, else high when it is above max, else ok; equality with min or
   max is ok and an inverted pair is compared the same way. *)
C11_MinMaxStatus ==
    [][Pass =>
         \A d \in DimsChecked :
            Known(Seen(d, reading)) =>
               status'[d] = Classify(Seen(d, reading).v, thresholds[d])]_vars

C11_Witness ==
    /\ thresholds = InvertedThresholds
    /\ reading["humidity"] = Num(60)
    /\ status["humidity"] = STATE_HIGH
    /\ reading["temperature"] = Unknown
    /\ reading["room_temperature"] = Num(31)
    /\ status["temperature"] = STATE_LOW

(* C12: after a pass the aggregate is unknown when no dimension had a known
   reading in the pass; else problem when some dimension with its trigger on
   got the status low or high in the pass; else ok. *)
C12_Aggregate ==
    [][Pass =>
         LET known == {d \in Dims : Present(Seen(d, reading))}
             bad == {d \in known :
                       trigger[d] /\ status'[d] \in {STATE_LOW, STATE_HIGH}}
         IN  state' = IF known = {} THEN STATE_UNKNOWN
                      ELSE IF bad # {} THEN STATE_PROBLEM
                      ELSE STATE_OK]_vars

C12_Witness ==
    /\ state = STATE_OK
    /\ Known(reading["moisture"])
    /\ status["moisture"] = STATE_LOW
    /\ ~trigger["moisture"]
    /\ Known(reading["illuminance"])
    /\ status["illuminance"] = STATE_OK
    /\ trigger["illuminance"]

(* C13 as stated: neither the illuminance status nor the dli status is ever
   low. *)
C13_LightNeverLow ==
    status["illuminance"] # STATE_LOW /\ status["dli"] # STATE_LOW

(* C13 amended: the illuminance status is never low; a pass that finds a
   state of the DLI sensor sets the dli status to low exactly when
   0 < last_period < min_dli. *)
C13_IlluminanceNeverLow ==
    [][/\ status'["illuminance"] # STATE_LOW
       /\ (Pass /\ Present(reading["dli"])) =>
             (status'["dli"] = STATE_LOW <=>
                 (0 < last_period /\ last_period < thresholds["dli"].min))]_vars

C13_Witness ==
    /\ status["dli"] = STATE_LOW
    /\ Known(reading["illuminance"])
    /\ reading["illuminance"].v < thresholds["illuminance"].min
    /\ status["illuminance"] = STATE_OK

(* C14: every pass runs to its end and assigns the aggregate: no block
   raises, and _attr_state is ok, problem or unknown after it. *)
C14_PassCompletes ==
    [][Pass =>
         /\ ~Raises(reading, last_period, thresholds)
         /\ state' \in {STATE_OK, STATE_PROBLEM, STATE_UNKNOWN}]_vars

(* C15: what async_added_to_hass leaves in last_watered, snooze_until and
   last_notified is what the last written state held in its attributes, a
   missing value included; without a written state they are None. *)
C15_RestoreRoundTrip ==
    [][AddedToHass =>
         /\ saved.has =>
               /\ last_watered' = saved.lw
               /\ snooze_until' = saved.su
               /\ last_notified' = saved.ln
         /\ ~saved.has =>
               /\ last_watered' = None
               /\ snooze_until' = None
               /\ last_notified' = None]_vars

C15_Witness ==
    /\ saved.has
    /\ state = NoStatus
    /\ last_watered.k = "iso"
    /\ snooze_until = None
    /\ last_notified.k = "iso"
    /\ last_notified.t > last_watered.t
    /\ last_watered = saved.lw
    /\ last_notified = saved.ln

(* C16: a restart leaves the watering sensor's _last_watered and
   _last_notified as they were, so the notification is not issued again
   within 24 hours of the one before the restart. *)
C16_RestartKeepsWateringState ==
    [][/\ AddedToHassW =>
             /\ w_last_watered' = w_last_watered
             /\ w_last_notified' = w_last_notified
       /\ wFires' > wFires =>
             (wLastFire.k = "none" \/ now - wLastFire.t > NotifyHoursW * Hour)]_vars

(* C17: at most one send task of the plant is created and not yet
   finished. *)
C17_OneTaskAtATime == scheduled + inflight <= 1

(* C18: a pass changes neither last_watered nor snooze_until; last_notified
   changes only when a send task that the gate created records its firing;
   last_watered changes only in async_watered, snooze_until only in
   async_watered and async_snooze. *)
C18_OnlyMutators ==
    [][/\ Update => UNCHANGED <<last_watered, snooze_until, last_notified>>
       /\ last_watered' # last_watered => AsyncWatered
       /\ snooze_until' # snooze_until =>
             (AsyncWatered \/ \E h \in SnoozeRequests : AsyncSnooze(h))
       /\ last_notified' # last_notified => SendReturn]_vars

C18_Witness ==
    /\ last_watered.k = "iso"
    /\ snooze_until.k = "iso"
    /\ last_notified.k = "iso"
    /\ last_watered.t < snooze_until.t
    /\ state = STATE_PROBLEM
    /\ now > snooze_until.t

(* C19: the time next_watering returns is at least 0.5 days and at most 365
   days after last_watered, whatever the arguments; a base interval of None
   counts as 7 days. *)
C19_IntervalClamped ==
    calc.called =>
       /\ calc.next - calc.last >= MIN_INTERVAL_DAYS
       /\ calc.next - calc.last <= MAX_INTERVAL_DAYS
       /\ calc.base = NoValue =>
             calc = [next_watering(calc.last, Num(7), calc.temp, calc.hum,
                                   calc.outside, calc.dry, calc.dli, calc.day)
                        EXCEPT !.base = NoValue]

C19_Witness ==
    /\ calc.called
    /\ calc.base = Num(-3)
    /\ calc.temp = Num(60)
    /\ calc.interval = MIN_INTERVAL_DAYS

(* C20: the temperature modifier is 1.0 at 20 degrees C and when no
   temperature is given, lies within [0.5, 2.0] for every temperature, falls
   by 0.02 for each degree between the clamps (from -30 to 45 degrees), and
   is never larger at a higher temperature than at a lower one. *)
C20_TempModifier ==
    calc.called =>
       /\ calc.temp_mod >= 500
       /\ calc.temp_mod <= 2000
       /\ calc.temp = NoValue => calc.temp_mod = Mille
       /\ calc.temp = Num(20) => calc.temp_mod = Mille
       /\ calc.temp.kind = "num" =>
             /\ (calc.temp.v >= -30 /\ calc.temp.v <= 45) =>
                   calc.temp_mod = Mille - 20 * (calc.temp.v - 20)
             /\ \A t \in TempValues :
                   (t.kind = "num" /\ t.v >= calc.temp.v) =>
                       temp_modifier(t) <= calc.temp_mod

C20_Witness ==
    /\ calc.called
    /\ calc.temp = Num(21)
    /\ calc.temp_mod = 980

(* C21: the humidity modifier is 1.0 at 50 per cent and when no humidity is
   given, lies within [0.5, 2.0] for every humidity, and is never smaller at a
   higher humidity than at a lower one. *)
C21_HumidityModifier ==
    calc.called =>
       /\ calc.hum_mod >= 500
       /\ calc.hum_mod <= 2000
       /\ calc.hum = NoValue => calc.hum_mod = Mille
       /\ calc.hum = Num(50) => calc.hum_mod = Mille
       /\ calc.hum.kind = "num" =>
             \A h \in HumidityValues :
                (h.kind = "num" /\ h.v >= calc.hum.v) =>
                    humidity_modifier(h) >= calc.hum_mod

C21_Witness ==
    /\ calc.called
    /\ calc.hum = Num(100)
    /\ calc.hum_mod = 1250

(* C22: the seasonal modifier is 0.8, its minimum, on day 172 of the year
   and 1.2, its maximum, on day 355, and lies within [0.8, 1.2] on every
   day. *)
C22_SeasonalModifier ==
    calc.called =>
       /\ calc.season_mod >= 800
       /\ calc.season_mod <= 1200
       /\ calc.day = 172 => calc.season_mod = 800
       /\ calc.day = 355 => calc.season_mod = 1200

(* The words the explanation has for a factor, and whether it names it *)
FactorWords ==
    [temperature |-> {"cool temperature", "warm temperature"},
     humidity |-> {"high humidity", "dry air"},
     season |-> {"winter dormancy", "summer growth"},
     weather |-> {"dry weather", "wet weather"},
     light |-> {"lots of light", "low light"}]

Named(f) ==
    \E i \in DOMAIN calc.explanation.parts :
       calc.explanation.parts[i] \in FactorWords[f]

Deviation(mod) == IF mod >= Mille THEN mod - Mille ELSE Mille - mod

FactorModifier ==
    [temperature |-> calc.temp_mod, humidity |-> calc.hum_mod,
     season |-> calc.season_mod, weather |-> calc.out_mod,
     light |-> calc.dli_mod]

(* C23: the explanation names a factor exactly when the factor's modifier
   is more than 0.05 away from 1.0, and is "Ideal conditions" exactly when no
   modifier is. *)
C23_ExplanationFivePercent ==
    calc.called =>
       /\ \A f \in DOMAIN FactorWords :
             Named(f) <=> Deviation(FactorModifier[f]) > 50
       /\ calc.explanation.text = "Ideal conditions" <=>
             \A f \in DOMAIN FactorWords : Deviation(FactorModifier[f]) <= 50

(* C23 as the code has it: temperature and humidity are named beyond 0.05,
   season and light beyond 0.1, the weather beyond 0.2 and for a plant
   outside; "Ideal conditions" exactly when nothing is named. *)
FactorThreshold ==
    [temperature |-> 50, humidity |-> 50, season |-> 100, weather |-> 200,
     light |-> 100]

C23_ExplanationThresholds ==
    calc.called =>
       /\ \A f \in DOMAIN FactorWords :
             Named(f) <=> Deviation(FactorModifier[f]) > FactorThreshold[f]
       /\ Named("weather") => calc.outside
       /\ calc.explanation.text = "Ideal conditions" <=>
             \A f \in DOMAIN FactorWords : ~Named(f)

C23_Witness ==
    /\ calc.called
    /\ calc.outside
    /\ calc.out_mod = 800
    /\ calc.dli_mod = 1100
    /\ calc.explanation.text = "Ideal conditions"

(* Temperature, humidity and forecast leave adj at 1.0. *)
NeutralModifiers ==
    /\ NumOr(Seen("temperature", reading), NeutralTemp) = NeutralTemp
    /\ NumOr(Seen("humidity", reading), NeutralHum) = NeutralHum
    /\ ~rainy_forecast

(* C24: async_watered, which re-evaluates at once, leaves days remaining
   equal to the base interval whenever temperature, humidity and forecast are
   neutral, for every moisture reading and every base interval. *)
C24_WateredGivesBase ==
    [][(AsyncWatered /\ NeutralModifiers)
          => next_watering_days' = base_days]_vars

(* C24 as the code has it: async_watered leaves days remaining at least the
   base interval; with neutral modifiers it is the base interval when there
   is no moisture reading or the reading is not above max_moisture. *)
C24_WateredAtLeastBase ==
    [][AsyncWatered =>
         /\ next_watering_days' >= base_days
         /\ (/\ NeutralModifiers
             /\ \/ ~Present(reading["moisture"])
                \/ reading["moisture"].v <= thresholds["moisture"].max)
               => next_watering_days' = base_days]_vars

C24_Witness ==
    /\ last_watered = Iso(now)
    /\ reading["moisture"] = Num(80)
    /\ NeutralModifiers
    /\ watering_days = 0
    /\ next_watering_days = 10

(* C25: a pass that finds no usable moisture reading (no sensor, or a state
   that is unknown or unavailable) while last_watered is recorded leaves days
   remaining at base_days minus the whole days since last_watered, not below
   0. *)
C25_TimerFallback ==
    [][(Pass /\ ~Present(reading["moisture"]) /\ last_watered'.k = "iso")
          => next_watering_days' =
                Max(0, base_days - ((now - last_watered'.t) \div (24 * Hour)))]_vars

(* C26: with a moisture sensor, a pass less than 12 hours after last_watered
   leaves days remaining at the larger of the moisture estimate and the base
   interval; from 12 hours on it leaves the moisture estimate (0 for an
   estimate that is not positive). *)
C26_JustWateredOverride ==
    [][(Pass /\ reading["moisture"] # NoState /\ last_watered'.k = "iso")
          => next_watering_days' =
                IF now - last_watered'.t < 12 * Hour
                THEN Max(base_days, slope_days)
                ELSE Max(0, slope_days)]_vars

C26_Witness ==
    /\ last_watered.k = "iso"
    /\ now - last_watered.t = 12 * Hour
    /\ reading["moisture"] = Num(40)
    /\ watering_days = 0
    /\ NeutralModifiers
    /\ next_watering_days = 3

(* The values the first two forecast entries give *)
ForecastValues(attrs) ==
    LET entries == FirstTwo(attrs.forecast.list) IN
    {i \in DOMAIN entries : weather_dryness_from_attrs(entries[i]).kind = "num"}

(* C27: weather_dryness_from_attrs returns no data or a value in [0, 1],
   taken from the first source that applies: the average of the values of
   the first two forecast entries, a precipitation probability field, a
   precipitation amount field, the condition keyword (clear 0.9, cloudy 0.6,
   rain, snow or storm 0.1); no data when none applies. *)
C27_DrynessSources ==
    dryness_call.called =>
       LET attrs == dryness_call.attrs
           result == dryness_call.result
           entries == FirstTwo(attrs.forecast.list)
           got == ForecastValues(attrs)
           prob == FirstNum(attrs.probs)
           amount == FirstNum(attrs.amounts)
           word == Lower(attrs.condition)
       IN
       /\ result.kind \in {"none", "num"}
       /\ result.kind = "num" => result.v >= 0 /\ result.v <= Mille
       /\ IF got # {}
          THEN /\ result.kind = "num"
               /\ result.v * Cardinality(got) =
                     (IF 1 \in got
                      THEN weather_dryness_from_attrs(entries[1]).v ELSE 0)
                     + (IF 2 \in got
                        THEN weather_dryness_from_attrs(entries[2]).v ELSE 0)
          ELSE IF prob.kind = "num"
          THEN result = Num(Mille - 10 * Clamp(0, prob.v, 100))
          ELSE IF amount.kind = "num"
          THEN result = Num(Clamp(0, Mille - 20 * amount.v, Mille))
          ELSE IF word = "sunny" THEN result = Num(900)
          ELSE IF word = "cloudy" THEN result = Num(600)
          ELSE IF word = "rainy" THEN result = Num(100)
          ELSE result = NoValue

C27_Witness ==
    /\ dryness_call.called
    /\ Len(dryness_call.attrs.forecast.list) = 2
    /\ dryness_call.attrs.forecast.list[1] = NestedEntry
    /\ dryness_call.attrs.forecast.list[2] = EmptyAttrs
    /\ FirstNum(dryness_call.attrs.probs) = Num(80)
    /\ dryness_call.result = Num(500)

(* The meter evaluated its list in this step: async_update, or state_changed
   for the change of one of the sources of the list. *)
MeterHandled ==
    \/ MeterPoll
    \/ \E e \in SourceIds : \E r \in SourceStates :
          SetSource(e, r) /\ e \in meter.external_sensor /\ meter.state # NoState

(* The sources of the list with a state that is a number *)
UsableSources(sensors, src) == {sid \in sensors : src[sid].kind = "num"}

(* C28: a meter with a list of sources, when it is polled or one of the
   sources changes, reports the mean of exactly the sources of the list
   whose state is there and is a number (a missing, unknown, unavailable or
   non-numeric one is left out), and no data when there is none. *)
C28_MeanOfUsable ==
    [][(MeterHandled /\ meter'.external_sensor # {}) =>
         LET usable == UsableSources(meter'.external_sensor, source') IN
         IF usable = {} THEN meter'.native_value = default_state
         ELSE /\ meter'.native_value.kind = "num"
              /\ meter'.native_value.v * Cardinality(usable) =
                    MeanUnit * SumOf(usable, source')]_vars

C28_Witness ==
    /\ meter.external_sensor = {"a", "b"}
    /\ source["a"] = Num(10)
    /\ source["b"] = Num(40)
    /\ meter.native_value = Num(50)

(* C29: the light modifier is 1.0 at a DLI of 5 and when no DLI is given,
   1.5 at a DLI of 0, lies within [0.25, 1.5] for every DLI, negative and very
   large ones included, and is never larger at a higher DLI than at a lower
   one. *)
C29_DliModifier ==
    calc.called =>
       /\ calc.dli_mod >= 250
       /\ calc.dli_mod <= 1500
       /\ calc.dli = NoValue => calc.dli_mod = Mille
       /\ calc.dli = Num(5) => calc.dli_mod = Mille
       /\ calc.dli = Num(0) => calc.dli_mod = 1500
       /\ calc.dli.kind = "num" =>
             \A d \in DliValues :
                (d.kind = "num" /\ d.v >= calc.dli.v) =>
                    dli_modifier(d) <= calc.dli_mod

C29_Witness ==
    /\ calc.called
    /\ calc.dli = Num(-5)
    /\ calc.dli_mod = 1500

(* C30: the outdoor modifier is 1.0 for a plant that is not outside, whatever
   the dryness; for a plant outside it is 0.8 without a dryness and otherwise
   1.2 - (dryness - 0.5) clamped to [0.4, 1.5], so it is never larger at a
   higher dryness than at a lower one. *)
C30_OutdoorModifier ==
    calc.called =>
       /\ ~calc.outside => calc.out_mod = Mille
       /\ (calc.outside /\ calc.dry = NoValue) => calc.out_mod = 800
       /\ (calc.outside /\ calc.dry.kind = "num") =>
             /\ calc.out_mod = Max(400, Min(1500, 1700 - calc.dry.v))
             /\ \A d \in DrynessValues :
                   (d.kind = "num" /\ d.v >= calc.dry.v) =>
                       outdoor_modifier(TRUE, d) <= calc.out_mod

C30_Witness ==
    /\ calc.called
    /\ ~calc.outside
    /\ calc.dry = Num(1000)
    /\ calc.out_mod = Mille

(* C31: in a pass where the DLI sensor has a state and the previous period's
   total is zero or negative, dli_status is neither low nor high, dli does not
   make the aggregate a problem, and when no other dimension has a reading
   the aggregate is unknown after the pass. *)
C31_ZeroDoseNoData ==
    [][(Pass /\ Present(reading["dli"]) /\ last_period <= 0) =>
         /\ status'["dli"] \notin {STATE_LOW, STATE_HIGH}
         /\ ~Contributes("dli", reading, status')
         /\ (\A d \in Dims \ {"dli"} : ~Present(Seen(d, reading))) =>
                state' = STATE_UNKNOWN]_vars

(* C35: a state change of an entity that is not, or is no longer, among the
   meter's external sensors leaves the meter's value as it was. *)
C35_ReplacedSourceIgnored ==
    [][\A e \in SourceIds : \A r \in SourceStates :
          (SetSource(e, r) /\ e \notin meter.external_sensor) =>
              meter'.native_value = meter.native_value]_vars

(* C37: the pass async_watered runs creates no send task, whatever the
   moisture reading is and whether or not a snooze was in force. *)
C37_WateredSchedulesNothing ==
    [][AsyncWatered => scheduled' = scheduled]_vars

(* C39: on the watering sensor mark_watered and snooze assign _last_watered
   and nothing else of the sensor, _last_notified in particular stays; and a
   notification is issued only when more than 24 hours have passed since the
   one before, also when the plant was watered or snoozed in between. *)
C39_CooldownAcrossWatering ==
    [][/\ ((\E when \in {None, Iso(0)} : MarkWatered(when))
              \/ (\E h \in SnoozeChoices : SnoozeW(h))) =>
            UNCHANGED <<w_last_notified, w_next, w_native, wFires, wLastFire,
                        w_saved>>
       /\ (wFires' > wFires /\ wLastFire.k = "iso") =>
            now - wLastFire.t > NotifyHoursW * Hour]_vars

C39_Witness ==
    /\ wFires = 1
    /\ w_last_notified = Iso(0)
    /\ wSnooze.k = "iso"
    /\ now = 1 * Hour
    /\ w_next = Iso(now)
    /\ w_native = 0
    /\ w_saved.lw = w_last_watered

(* A snooze is in force; the 4 hours since the last notification are not
   over. *)
SnoozeRunning == snooze_until.k = "iso" /\ now < snooze_until.t
CooldownRunning ==
    last_notified.k = "iso" /\ now < last_notified.t + CooldownHours * Hour

(* C38: when the moisture status is low with its trigger on, no snooze is in
   force (none is stored, the stored one has run out or does not parse) and
   no notification was recorded in the last 4 hours (or the stored time does
   not parse), then a notification is delivered and recorded, unless a new
   snooze comes first. *)
C38_EventuallyNotified ==
    (/\ status["moisture"] = STATE_LOW
     /\ trigger["moisture"]
     /\ ~SnoozeRunning
     /\ ~CooldownRunning)
       ~> (CooldownRunning \/ SnoozeRunning)

C38_Witness ==
    /\ snooze_until = Garbled
    /\ status["moisture"] = STATE_LOW
    /\ last_notified.k = "iso"
    /\ last_notified.t > 0
    /\ CooldownRunning

(* The services a sequence of calls went to *)
Range(seq) == {seq[i] : i \in DOMAIN seq}

(* C33: when the watering sensor notifies and no preferred service is
   configured, the call is made once on every registered notify service,
   those whose call raises and those after them included. *)
C33_BroadcastReachesAll ==
    [][(wFires' > wFires /\ notify.preferred = "") =>
          /\ Range(notify'.attempted) = Range(notify.registered)
          /\ Len(notify'.attempted) = Len(notify.registered)]_vars

C33_Witness ==
    /\ wFires > 0
    /\ notify.preferred = ""
    /\ notify.registered = <<"c1", "c2">>
    /\ notify.failing = {"c1"}
    /\ notify.attempted = <<"c1", "c2">>

(* The action identifiers that stand for "watered" and for "snooze" *)
WateredIds == {PLANT_WATERED, "plant_done"}
SnoozeIds == {PLANT_SNOOZE, "plant_snooze"}

(* C34: every notification handed out carries two actions, one for watered
   and one for snooze; and once the listeners have run, each event carrying
   an action identifier of a notification handed out has made the mutator of
   that action run on the notification's plant. *)
C34_ActionsReachMutators ==
    \A msg \in outbox :
       /\ Len(msg.actions) = 2
       /\ \E i, j \in 1..2 :
             msg.actions[i] \in WateredIds /\ msg.actions[j] \in SnoozeIds
       /\ hub.queue = <<>> =>
             \A i \in 1..2 :
                LET a == msg.actions[i]
                    n == hub.fired[msg.entity_id][a]
                IN  IF a \in WateredIds
                    THEN n > 0 => handled[msg.entity_id].watered > 0
                    ELSE n > 0 => handled[msg.entity_id].snoozed > 0

(* The events that name plant p with an identifier the handler knows *)
EventsFor(p) == hub.fired[p][PLANT_WATERED] + hub.fired[p][PLANT_SNOOZE]

(* C36: the mutators have run on a plant at most once per event naming it,
   and exactly once per event when the listeners have run, however many
   plants are set up. *)
C36_OncePerEvent ==
    \A p \in hub.plants :
       /\ handled[p].watered + handled[p].snoozed <= EventsFor(p)
       /\ hub.queue = <<>> =>
             /\ handled[p].watered = hub.fired[p][PLANT_WATERED]
             /\ handled[p].snoozed = hub.fired[p][PLANT_SNOOZE]

====
